---- MODULE Spec2Model ----
(***************************************************************************)
(* Model of the concurrent fetch / health / scheduling core of             *)
(* otc-api-server:                                                          *)
(*   - services.ScoringPipeline  (internal/services/scoring_pipeline.go)    *)
(*   - scraper.Scraper           (internal/scraper/scraper.go)              *)
(*   - scraper.OxyLabsClient     (internal/scraper/oxylabs_client.go)       *)
(*   - scraper.HealthMonitor     (internal/scraper/health_monitor.go)       *)
(*   - scraper.Client            (internal/scraper/client.go)               *)
(*   - scoring.ScoringEngine     (internal/scoring/engine.go)               *)
(*   - the scoring cycle         (executeScoringCycle, processBatch and     *)
(*                                scoringServiceImpl.ScoreCompany)          *)
(* Each component has its own specification over the shared variables;      *)
(* the variables of the other components stay at their initial values.      *)
(***************************************************************************)
EXTENDS Integers, Sequences, FiniteSets, TLC

(***************************************************************************)
(* Bounds of the model.                                                     *)
(***************************************************************************)
\* Number of client threads that call Start / Stop concurrently.
NumCallers == 2
\* Cap on the number of background loops ever launched by Start.
MaxLoops == 3
\* Largest number of tickers handed to ScrapeTickersBatch.
NumTickers == 3
\* Largest value of Scraper.maxConcurrency.
MaxConc == 2
\* Largest number of tickers handed to ScrapeTickersOptimized.
MaxOptTickers == 12
\* Cap on HealthMonitor.totalRequests in the page-level specification.
MaxHmTotal == 4

VARIABLES
    \* ---- ScoringPipeline (scoring_pipeline.go:16-24) ----
    isRunning,        \* p.isRunning
    stopChanClosed,   \* whether p.stopChan has been closed
    mu,               \* holder of p.mu (0 = unlocked)
    wg,               \* counter of p.wg
    nLoops,           \* number of runPipeline goroutines launched so far
    loopPc,           \* position of each runPipeline goroutine
    callPc,           \* position of each client thread inside Start / Stop
    callOp,           \* the operation a client thread called last
    callResult,       \* what that call returned
    \* ---- Scraper.ScrapeTickersBatch / ScrapeTickersOptimized (scraper.go:112-258) ----
    mode,             \* which of the two functions this call is ("none": no call)
    tickerCount,      \* len(tickers); the tickers are 1..tickerCount
    maxConcurrency,   \* s.maxConcurrency
    chanCap,          \* capacity of resultsChan (0 = unbuffered)
    ctxDone,          \* whether ctx has been cancelled
    mainPc,           \* position of the goroutine that runs the function
    mainIdx,          \* ScrapeTickersBatch: index of the next ticker of the range loop
    mainErr,          \* the error the function returned
    taskPc,           \* ScrapeTickersBatch: position of the goroutine of each ticker
    semaphore,        \* ScrapeTickersBatch: number of tokens in the semaphore channel
    batchWg,          \* ScrapeTickersBatch: counter of the local WaitGroup
    queue,            \* results buffered in resultsChan
    received,         \* results the consumer has received, in order
    closeCount,       \* number of times close(resultsChan) has run
    chunkStart,       \* ScrapeTickersOptimized: i of the chunk loop (1-based)
    sendIdx,          \* processBatch: index of the ticker whose result is sent next
    \* ---- ScrapeTicker / processBatch page handling and HealthMonitor ----
    hm,               \* the counters and the failure ring of s.healthMonitor
    lastCall,         \* the last ScrapeTicker / processBatch call: input, fetch outcome, results
    \* ---- OxyLabsClient.GetBatch step by step (oxylabs_client.go:142-263) ----
    fetchPc,          \* position of the GetBatch call
    fetchUrls,        \* urls
    fetchIdx,         \* index of the fallback loop `for _, url := range urls`
    fetchDocs,        \* keys of docs
    fetchErrors,      \* errors: the message stored for each key
    proxy,            \* what the proxy answers to a single request for each URL
    batchStage,       \* how far the batch request of the call got
    getCalls,         \* the URLs c.Get was called with, in call order
    \* ---- Client and its rate limiter (client.go:13-92) ----
    requests,         \* the requests handed to httpClient.Do, in order
    requestsPerSecond,\* the argument of NewClient
    permits,          \* number of tokens in c.rateLimiter
    tick,             \* number of ticks of the refill ticker so far
    starts,           \* starts[k + 1]: number of Get calls that passed the limiter
                      \* after tick k and before tick k + 1
    clientResult,     \* what the last Client.Get call returned
    \* ---- HealthMonitor called directly (health_monitor.go) ----
    now,              \* time.Now(), in units of one hour (0 is the zero time.Time)
    calls,            \* the calls made on the monitor so far, counted by kind
    \* ---- ScoringEngine.ScoreCompany (scoring/engine.go:72-150) ----
    companyData,      \* the attribute snapshot handed to ScoreCompany
    icpModel,         \* the ICPModel handed to ScoreCompany
    scoreResult,      \* the ScoreResult it returned
    \* ---- ScoringPipeline.executeScoringCycle (scoring_pipeline.go:144-288) ----
    config,           \* the PipelineConfig of the cycle: BatchSize and MaxConcurrent
    eligible,         \* number of companies the query matches before its LIMIT
    cyclePc,          \* position of the goroutine that runs executeScoringCycle
    cycleErr,         \* the error executeScoringCycle returned ("none": nil)
    companies,        \* len(companies); the companies are 1..companies
    launchI,          \* the variable i of the loop that launches the chunks
    chunkTasks,       \* the goroutines launched for the chunks, in launch order
    cycleSemaphore,   \* number of tokens in the channel semaphore
    cycleWg,          \* counter of the cycle's WaitGroup
    statsMu,          \* holder of the cycle's mutex (0 = unlocked)
    stats,            \* the PipelineStats of the cycle
    scoreLog,         \* for each company, the outcomes of the ScoreCompany calls on it
    cycles,           \* number of executeScoringCycle calls begun
    \* ---- HealthMonitor called from concurrent goroutines (health_monitor.go) ----
    hmMu,             \* h.mu: the goroutine that holds the write lock (0 = none)
                      \* and the goroutines that hold a read lock
    hmPc,             \* position of each goroutine inside the method it called
    hmOp,             \* the method each goroutine called last
    hmLocal,          \* the values a writing goroutine is about to store
    hmSeen,           \* the HealthStatus the last GetHealthStatus of a goroutine built
    hmStarted         \* number of calls begun so far

pvars == <<isRunning, stopChanClosed, mu, wg, nLoops, loopPc, callPc, callOp, callResult>>

svars == <<mode, tickerCount, maxConcurrency, chanCap, ctxDone, mainPc, mainIdx, mainErr,
           taskPc, semaphore, batchWg, queue, received, closeCount, chunkStart, sendIdx>>

hvars == <<hm, lastCall>>

cvars == <<fetchPc, fetchUrls, fetchIdx, fetchDocs, fetchErrors, proxy, batchStage, getCalls,
           requests, requestsPerSecond, permits, tick, starts, clientResult>>

mvars == <<now, calls>>

evars == <<companyData, icpModel, scoreResult>>

kvars == <<config, eligible, cyclePc, cycleErr, companies, launchI, chunkTasks,
           cycleSemaphore, cycleWg, statsMu, stats, scoreLog, cycles>>

tvars == <<hmMu, hmPc, hmOp, hmLocal, hmSeen, hmStarted>>

vars == <<pvars, svars, hvars, cvars, mvars, evars, kvars, tvars>>

\* The variables each component leaves alone.
notPipeline == <<svars, hvars, cvars, mvars, evars, kvars, tvars>>
notScrape == <<pvars, hvars, cvars, mvars, evars, kvars, tvars>>
notPages == <<pvars, svars, cvars, mvars, evars, kvars, tvars>>
notClient == <<pvars, svars, hvars, mvars, evars, kvars, tvars>>
notMonitor == <<pvars, svars, lastCall, cvars, evars, kvars, tvars>>
notEngine == <<pvars, svars, hvars, cvars, mvars, kvars, tvars>>
notCycle == <<pvars, svars, hvars, cvars, mvars, evars, tvars>>
notThreads == <<pvars, svars, lastCall, cvars, now, evars, kvars>>

Callers == 1..NumCallers
Loops == 1..MaxLoops
Tasks == 1..NumTickers

\* The variables of the pipeline while no pipeline operation is modelled.
PipelineIdle ==
    /\ isRunning = FALSE
    /\ stopChanClosed = FALSE
    /\ mu = 0
    /\ wg = 0
    /\ nLoops = 0
    /\ loopPc = [l \in Loops |-> "none"]
    /\ callPc = [c \in Callers |-> "idle"]
    /\ callOp = [c \in Callers |-> "none"]
    /\ callResult = [c \in Callers |-> "none"]

\* The variables of the scrape fan-out while no scrape call is modelled.
ScrapeIdle ==
    /\ mode = "none"
    /\ tickerCount = 0
    /\ maxConcurrency = 1
    /\ chanCap = 0
    /\ ctxDone = FALSE
    /\ mainPc = "none"
    /\ mainIdx = 1
    /\ mainErr = "none"
    /\ taskPc = [t \in Tasks |-> "none"]
    /\ semaphore = 0
    /\ batchWg = 0
    /\ queue = <<>>
    /\ received = <<>>
    /\ closeCount = 0
    /\ chunkStart = 1
    /\ sendIdx = 1

(***************************************************************************)
(* ScoringPipeline: Start / Stop / runPipeline                              *)
(***************************************************************************)
\* NewHealthMonitor, health_monitor.go:48-55: the counters and the two time
\* stamps are zero values (time 0 is the zero time.Time), the ring is empty.
NewHealthMonitor == [total |-> 0, successful |-> 0, failed |-> 0, consecutive |-> 0,
                     lastFailureTime |-> 0, lastSuccessTime |-> 0, recent |-> <<>>]

\* No ScrapeTicker / processBatch call has been made.
NoCall == [op |-> "none", tickers |-> <<>>, docs |-> {}, errors |-> {}, results |-> <<>>,
           err |-> "none"]

\* The page-level variables while no page-level operation is modelled.
PagesIdle ==
    /\ hm = NewHealthMonitor
    /\ lastCall = NoCall

\* No call has been made on the monitor: n counts the RecordSuccess and
\* RecordFailure calls, arrivals the RecordFailure calls; succ and fail count
\* the two kinds since the last Reset; run counts the RecordFailure calls
\* since the last call of another kind.
NoCalls == [op |-> "none", n |-> 0, arrivals |-> 0, succ |-> 0, fail |-> 0, run |-> 0]

\* The clock and the call counts while the monitor is not called directly.
MonitorIdle ==
    /\ now = 1
    /\ calls = NoCalls

\* ScoreCompany has not returned.
NoResult == [returned |-> FALSE]

\* The variables of the scoring engine while no ScoreCompany call is modelled.
EngineIdle ==
    /\ companyData = <<>>
    /\ icpModel = <<>>
    /\ scoreResult = NoResult

\* A PipelineStats, a BatchStats with all counters zero.
ZeroStats == [found |-> 0, processed |-> 0, succeeded |-> 0, failed |-> 0, modelsApplied |-> 0]
ZeroBatchStats == [processed |-> 0, succeeded |-> 0, failed |-> 0, modelsApplied |-> 0]

\* The variables of the scoring cycle while no cycle is modelled.
CycleIdle ==
    /\ config = [batchSize |-> 0, maxConcurrent |-> 0]
    /\ eligible = 0
    /\ cyclePc = "idle"
    /\ cycleErr = "none"
    /\ companies = 0
    /\ launchI = 0
    /\ chunkTasks = <<>>
    /\ cycleSemaphore = 0
    /\ cycleWg = 0
    /\ statsMu = 0
    /\ stats = ZeroStats
    /\ scoreLog = <<>>
    /\ cycles = 0

\* The goroutines that call the HealthMonitor while none is modelled.
ThreadsIdle ==
    /\ hmMu = [writer |-> 0, readers |-> {}]
    /\ hmPc = <<>>
    /\ hmOp = <<>>
    /\ hmLocal = <<>>
    /\ hmSeen = <<>>
    /\ hmStarted = 0

\* The variables of GetBatch while no GetBatch call is modelled.
FetchIdle ==
    /\ fetchPc = "idle"
    /\ fetchUrls = <<>>
    /\ fetchIdx = 1
    /\ fetchDocs = {}
    /\ fetchErrors = <<>>
    /\ proxy = <<>>
    /\ batchStage = "none"
    /\ getCalls = <<>>

\* The variables of Client while no Client is modelled.
RateIdle ==
    /\ requestsPerSecond = 0
    /\ permits = 0
    /\ tick = 0
    /\ starts = <<0>>
    /\ clientResult = "none"

\* NewScoringPipeline: isRunning is the zero value, stopChan is made once.
PipelineInit ==
    /\ PipelineIdle
    /\ ScrapeIdle
    /\ PagesIdle
    /\ FetchIdle /\ RateIdle /\ requests = <<>>
    /\ MonitorIdle
    /\ EngineIdle
    /\ CycleIdle
    /\ ThreadsIdle

\* The goroutines of runPipeline that have been launched and have not returned.
AliveLoops == {l \in Loops : loopPc[l] \notin {"none", "exited"}}

\* The goroutines of runPipeline that are inside executeScoringCycle.
CyclingLoops == {l \in Loops : loopPc[l] \in {"initial_cycle", "tick_cycle"}}

\* A client thread calls Start: it blocks on p.mu.Lock().
CallStart(c) ==
    /\ callPc[c] = "idle"
    /\ callPc' = [callPc EXCEPT ![c] = "start_lock"]
    /\ callOp' = [callOp EXCEPT ![c] = "start"]
    /\ callResult' = [callResult EXCEPT ![c] = "none"]
    /\ UNCHANGED <<isRunning, stopChanClosed, mu, wg, nLoops, loopPc>>

\* A client thread calls Stop: it blocks on p.mu.Lock().
CallStop(c) ==
    /\ callPc[c] = "idle"
    /\ callPc' = [callPc EXCEPT ![c] = "stop_lock"]
    /\ callOp' = [callOp EXCEPT ![c] = "stop"]
    /\ callResult' = [callResult EXCEPT ![c] = "none"]
    /\ UNCHANGED <<isRunning, stopChanClosed, mu, wg, nLoops, loopPc>>

\* Mutation of StartRejects: the isRunning test is dropped.
StartRejectsNever(running) == FALSE

\* Start, line 67: `if p.isRunning { return error }`.
StartRejects(running) == running

\* Stop, line 88: `if !p.isRunning { return error }`.
StopRejects(running) == ~running

\* Start, from the acquisition of p.mu to the deferred unlock. Nothing in the
\* body blocks, so the critical section is one step.
Start(c) ==
    /\ callPc[c] = "start_lock"
    /\ mu = 0
    /\ IF StartRejects(isRunning)
       THEN /\ callResult' = [callResult EXCEPT ![c] = "conflict"]
            /\ UNCHANGED <<isRunning, wg, nLoops, loopPc>>
       ELSE /\ nLoops < MaxLoops
            /\ isRunning' = TRUE
            /\ wg' = wg + 1
            /\ nLoops' = nLoops + 1
            /\ loopPc' = [loopPc EXCEPT ![nLoops + 1] = "launched"]
            /\ callResult' = [callResult EXCEPT ![c] = "ok"]
    /\ callPc' = [callPc EXCEPT ![c] = "idle"]
    /\ UNCHANGED <<stopChanClosed, mu, callOp>>

\* Stop, from the acquisition of p.mu to the call of p.wg.Wait(). close() of
\* a channel that is already closed panics; the deferred unlock still runs
\* and the panic reaches the caller (gin.Recovery in the server, a crash in
\* cmd/scoring-pipeline).
StopBegin(c) ==
    /\ callPc[c] = "stop_lock"
    /\ mu = 0
    /\ IF StopRejects(isRunning)
       THEN /\ callResult' = [callResult EXCEPT ![c] = "conflict"]
            /\ callPc' = [callPc EXCEPT ![c] = "idle"]
            /\ UNCHANGED <<stopChanClosed, mu>>
       ELSE IF stopChanClosed
       THEN /\ callResult' = [callResult EXCEPT ![c] = "panic"]
            /\ callPc' = [callPc EXCEPT ![c] = "idle"]
            /\ UNCHANGED <<stopChanClosed, mu>>
       ELSE /\ stopChanClosed' = TRUE
            /\ mu' = c
            /\ callPc' = [callPc EXCEPT ![c] = "stop_wait"]
            /\ UNCHANGED callResult
    /\ UNCHANGED <<isRunning, wg, nLoops, loopPc, callOp>>

\* Mutation of WaitGroupDone: Stop does not wait for the loop.
WaitGroupDoneAlways(n) == TRUE

\* p.wg.Wait() returns when the counter is zero.
WaitGroupDone(n) == n = 0

\* Stop, after p.wg.Wait() has returned: isRunning = false, unlock, return nil.
StopEnd(c) ==
    /\ callPc[c] = "stop_wait"
    /\ WaitGroupDone(wg)
    /\ isRunning' = FALSE
    /\ mu' = 0
    /\ callPc' = [callPc EXCEPT ![c] = "idle"]
    /\ callResult' = [callResult EXCEPT ![c] = "ok"]
    /\ UNCHANGED <<stopChanClosed, wg, nLoops, loopPc, callOp>>

\* runPipeline, lines 117-122: the ticker is made and the initial cycle begins.
LoopInitialCycle(l) ==
    /\ loopPc[l] = "launched"
    /\ loopPc' = [loopPc EXCEPT ![l] = "initial_cycle"]
    /\ UNCHANGED <<isRunning, stopChanClosed, mu, wg, nLoops, callPc, callOp, callResult>>

\* executeScoringCycle returns (with stats or an error, both only logged).
LoopCycleEnd(l) ==
    /\ loopPc[l] \in {"initial_cycle", "tick_cycle"}
    /\ loopPc' = [loopPc EXCEPT ![l] = "select"]
    /\ UNCHANGED <<isRunning, stopChanClosed, mu, wg, nLoops, callPc, callOp, callResult>>

\* runPipeline, line 133: the select takes the ticker case.
LoopTick(l) ==
    /\ loopPc[l] = "select"
    /\ loopPc' = [loopPc EXCEPT ![l] = "tick_cycle"]
    /\ UNCHANGED <<isRunning, stopChanClosed, mu, wg, nLoops, callPc, callOp, callResult>>

\* runPipeline, line 130: a receive from stopChan is ready iff it is closed
\* (nothing is ever sent on it).
StopSignalled(closed) == closed

\* runPipeline, lines 130-132: the select takes the stopChan case, the
\* function returns and the deferred p.wg.Done() runs.
LoopStopSignal(l) ==
    /\ loopPc[l] = "select"
    /\ StopSignalled(stopChanClosed)
    /\ loopPc' = [loopPc EXCEPT ![l] = "exited"]
    /\ wg' = wg - 1
    /\ UNCHANGED <<isRunning, stopChanClosed, mu, nLoops, callPc, callOp, callResult>>

PipelineNext ==
    \/ \E c \in Callers : CallStart(c) /\ UNCHANGED notPipeline
    \/ \E c \in Callers : CallStop(c) /\ UNCHANGED notPipeline
    \/ \E c \in Callers : Start(c) /\ UNCHANGED notPipeline
    \/ \E c \in Callers : StopBegin(c) /\ UNCHANGED notPipeline
    \/ \E c \in Callers : StopEnd(c) /\ UNCHANGED notPipeline
    \/ \E l \in Loops : LoopInitialCycle(l) /\ UNCHANGED notPipeline
    \/ \E l \in Loops : LoopCycleEnd(l) /\ UNCHANGED notPipeline
    \/ \E l \in Loops : LoopTick(l) /\ UNCHANGED notPipeline
    \/ \E l \in Loops : LoopStopSignal(l) /\ UNCHANGED notPipeline

SpecPipeline == PipelineInit /\ [][PipelineNext]_vars

(***************************************************************************)
(* Properties of the ScoringPipeline lifecycle                              *)
(***************************************************************************)
\* A step in which caller c's Start finds the pipeline Running.
StartOnRunning(c) == callPc[c] = "start_lock" /\ callPc'[c] = "idle" /\ isRunning

\* A step in which caller c's Stop finds the pipeline Stopped.
StopOnStopped(c) == callPc[c] = "stop_lock" /\ callPc'[c] = "idle" /\ ~isRunning

\* C1: Start on a Running pipeline and Stop on a Stopped pipeline return a
\* Conflict error and leave the run state, the stop signal and the set of
\* background loops unchanged.
C1_ConflictLeavesState ==
    [][\A c \in Callers :
        (StartOnRunning(c) \/ StopOnStopped(c))
            => /\ callResult'[c] = "conflict"
               /\ UNCHANGED <<isRunning, stopChanClosed, nLoops, loopPc, wg>>]_vars

\* C1 witness: one caller's Start was refused on the Running pipeline after
\* another caller's Stop had been refused on the Stopped pipeline.
C1_Witness ==
    \E c, d \in Callers :
        /\ callOp[c] = "start" /\ callResult[c] = "conflict" /\ isRunning
        /\ callOp[d] = "stop" /\ callResult[d] = "conflict"

\* C2: concurrent Start calls cannot double-launch. A Start that finds the
\* pipeline Stopped succeeds and makes it Running, a Start that finds it
\* Running gets Conflict (so of several Starts racing on a Stopped pipeline
\* exactly one succeeds), and at no time is more than one loop alive.
C2_NoDoubleLaunch ==
    /\ [](Cardinality(AliveLoops) <= 1 /\ wg = Cardinality(AliveLoops)
            /\ (AliveLoops # {} => isRunning))
    /\ [][\A c \in Callers :
            (callPc[c] = "start_lock" /\ callPc'[c] = "idle")
                => /\ callResult'[c] = IF isRunning THEN "conflict" ELSE "ok"
                   /\ isRunning'
                   /\ Cardinality(AliveLoops') = Cardinality(AliveLoops)
                        + (IF isRunning THEN 0 ELSE 1)]_vars

\* C2 witness: two Start calls raced, one succeeded and the other got
\* Conflict, and one loop is alive.
C2_Witness ==
    \E c, d \in Callers :
        /\ callOp[c] = "start" /\ callResult[c] = "ok"
        /\ callOp[d] = "start" /\ callResult[d] = "conflict"
        /\ Cardinality(AliveLoops) = 1

\* C3: after every successful Start the pipeline is Running with one
\* launched loop, the loop's first act is a cycle, and the loop keeps running
\* until a Stop called after that Start signals it: a loop only exits while
\* a Stop call is waiting for it.
C3_LoopRunsUntilStop ==
    [][/\ \A c \in Callers :
            (callPc[c] = "start_lock" /\ callResult'[c] = "ok")
                => isRunning' /\ \E l \in Loops : AliveLoops' = {l} /\ loopPc'[l] = "launched"
       /\ \A l \in Loops :
            /\ (loopPc[l] = "launched" /\ loopPc'[l] # "launched")
                    => loopPc'[l] = "initial_cycle"
            /\ (loopPc[l] # "exited" /\ loopPc'[l] = "exited")
                    => \E c \in Callers : callPc[c] = "stop_wait"]_vars

\* C4: every Stop that finds the pipeline Running returns without error,
\* only once the loop has exited, and leaves the pipeline Stopped with no
\* cycle of the loop executing or still to start.
C4_StopStopsLoop ==
    [][\A c \in Callers :
        (callPc[c] \in {"stop_lock", "stop_wait"} /\ callPc'[c] = "idle" /\ isRunning)
            => /\ callResult'[c] = "ok"
               /\ ~isRunning'
               /\ AliveLoops' = {} /\ CyclingLoops' = {}]_vars

(***************************************************************************)
(* Scraper: ScrapeTickersBatch and ScrapeTickersOptimized                   *)
(***************************************************************************)
\* ScrapeTickersOptimized, line 166: `batchSize := 10`.
batchSize == 10

\* The tickers of the call.
Tickers == 1..tickerCount

\* A call of ScrapeTickersBatch or of ScrapeTickersOptimized begins: the
\* caller chose the tickers, the capacity of resultsChan, and the scraper's
\* maxConcurrency (5 at every construction site, at least 1 here).
ScrapeInit ==
    /\ PipelineIdle
    /\ PagesIdle
    /\ FetchIdle /\ RateIdle /\ requests = <<>>
    /\ MonitorIdle
    /\ EngineIdle
    /\ CycleIdle
    /\ ThreadsIdle
    /\ mode \in {"batch", "optimized"}
    /\ tickerCount \in IF mode = "batch" THEN 0..NumTickers ELSE 0..MaxOptTickers
    /\ maxConcurrency \in 1..MaxConc
    /\ chanCap \in {0, 1, tickerCount}
    /\ ctxDone = FALSE
    /\ mainPc = IF mode = "batch" THEN "loop" ELSE "chunk"
    /\ mainIdx = 1
    /\ mainErr = "none"
    /\ taskPc = [t \in Tasks |-> "none"]
    /\ semaphore = 0
    /\ batchWg = 0
    /\ queue = <<>>
    /\ received = <<>>
    /\ closeCount = 0
    /\ chunkStart = 1
    /\ sendIdx = 1

\* A goroutine of ScrapeTickersBatch has sent on the closed resultsChan: the
\* panic is in a goroutine nothing recovers, so the process is gone.
Crashed == \E t \in Tasks : taskPc[t] = "panic"

\* The tickers whose result has been put on the stream.
SentTickers == {queue[i] : i \in 1..Len(queue)} \cup {received[i] : i \in 1..Len(received)}

\* The goroutines of ScrapeTickersBatch that were launched and have not returned.
LiveTasks == {t \in Tasks : taskPc[t] \in {"acquire", "scrape", "send"}}

\* The goroutines of ScrapeTickersBatch that are inside ScrapeTicker.
ScrapingTasks == {t \in Tasks : taskPc[t] = "scrape"}

\* The context is cancelled (by the caller, or by its deadline).
Cancel ==
    /\ mode # "none"
    /\ ~Crashed
    /\ ~ctxDone
    /\ ctxDone' = TRUE
    /\ UNCHANGED <<mode, tickerCount, maxConcurrency, chanCap, mainPc, mainIdx, mainErr,
                   taskPc, semaphore, batchWg, queue, received, closeCount, chunkStart, sendIdx>>

\* The consumer receives one result from resultsChan.
Receive ==
    /\ ~Crashed
    /\ queue # <<>>
    /\ received' = Append(received, Head(queue))
    /\ queue' = Tail(queue)
    /\ UNCHANGED <<mode, tickerCount, maxConcurrency, chanCap, ctxDone, mainPc, mainIdx,
                   mainErr, taskPc, semaphore, batchWg, closeCount, chunkStart, sendIdx>>

\* ScrapeTickersBatch, lines 119-154: one iteration of the range loop with
\* ctx not done: wg.Add(1) and `go func(t)`.
BatchLaunch ==
    /\ mode = "batch" /\ mainPc = "loop" /\ ~Crashed
    /\ mainIdx <= tickerCount
    /\ ~ctxDone
    /\ batchWg' = batchWg + 1
    /\ taskPc' = [taskPc EXCEPT ![mainIdx] = "acquire"]
    /\ mainIdx' = mainIdx + 1
    /\ UNCHANGED <<mode, tickerCount, maxConcurrency, chanCap, ctxDone, mainPc, mainErr,
                   semaphore, queue, received, closeCount, chunkStart, sendIdx>>

\* ScrapeTickersBatch, lines 120-122: the range loop sees ctx done and
\* returns ctx.Err(); the deferred close(resultsChan) runs.
BatchCancelReturn ==
    /\ mode = "batch" /\ mainPc = "loop" /\ ~Crashed
    /\ mainIdx <= tickerCount
    /\ ctxDone
    /\ mainPc' = "returned"
    /\ mainErr' = "ctx"
    /\ closeCount' = closeCount + 1
    /\ UNCHANGED <<mode, tickerCount, maxConcurrency, chanCap, ctxDone, mainIdx, taskPc,
                   semaphore, batchWg, queue, received, chunkStart, sendIdx>>

\* ScrapeTickersBatch: the range loop is over, wg.Wait() is called.
BatchLoopEnd ==
    /\ mode = "batch" /\ mainPc = "loop" /\ ~Crashed
    /\ mainIdx > tickerCount
    /\ mainPc' = "wait"
    /\ UNCHANGED <<mode, tickerCount, maxConcurrency, chanCap, ctxDone, mainIdx, mainErr,
                   taskPc, semaphore, batchWg, queue, received, closeCount, chunkStart, sendIdx>>

\* Mutation of BatchJoined: the function returns without joining its tasks.
BatchJoinedAlways(n) == TRUE

\* ScrapeTickersBatch, line 157: wg.Wait() returns when the counter is zero.
BatchJoined(n) == n = 0

\* ScrapeTickersBatch, lines 157-158: wg.Wait() returns, the function
\* returns nil and the deferred close(resultsChan) runs.
BatchWaitReturn ==
    /\ mode = "batch" /\ mainPc = "wait" /\ ~Crashed
    /\ BatchJoined(batchWg)
    /\ mainPc' = "returned"
    /\ mainErr' = "nil"
    /\ closeCount' = closeCount + 1
    /\ UNCHANGED <<mode, tickerCount, maxConcurrency, chanCap, ctxDone, mainIdx, taskPc,
                   semaphore, batchWg, queue, received, chunkStart, sendIdx>>

\* Mutation of SemaphoreHasRoom: the semaphore never blocks.
SemaphoreHasRoomAlways(held, cap) == TRUE

\* A send on the semaphore channel proceeds while it holds fewer than cap tokens.
SemaphoreHasRoom(held, cap) == held < cap

\* Goroutine of ticker t, line 131: `semaphore <- struct{}{}` proceeds and
\* ScrapeTicker(ctx, t) is called. The send does not look at ctx.
TaskAcquire(t) ==
    /\ mode = "batch" /\ ~Crashed
    /\ taskPc[t] = "acquire"
    /\ SemaphoreHasRoom(semaphore, maxConcurrency)
    /\ semaphore' = semaphore + 1
    /\ taskPc' = [taskPc EXCEPT ![t] = "scrape"]
    /\ UNCHANGED <<mode, tickerCount, maxConcurrency, chanCap, ctxDone, mainPc, mainIdx,
                   mainErr, batchWg, queue, received, closeCount, chunkStart, sendIdx>>

\* Goroutine of ticker t, lines 135-149: ScrapeTicker returns (its error is
\* always nil) and the goroutine reaches the select that sends the result.
\* What ScrapeTicker does with the pages is in the page handling section.
TaskScrape(t) ==
    /\ mode = "batch" /\ ~Crashed
    /\ taskPc[t] = "scrape"
    /\ taskPc' = [taskPc EXCEPT ![t] = "send"]
    /\ UNCHANGED <<mode, tickerCount, maxConcurrency, chanCap, ctxDone, mainPc, mainIdx,
                   mainErr, semaphore, batchWg, queue, received, closeCount, chunkStart, sendIdx>>

\* The goroutine of a task returns: the deferred `<-semaphore` and wg.Done() run.
TaskReturns(t) ==
    /\ semaphore' = semaphore - 1
    /\ batchWg' = batchWg - 1
    /\ taskPc' = [taskPc EXCEPT ![t] = "done"]

\* Goroutine of ticker t, line 150: the send proceeds into the buffer of the
\* open channel.
TaskSend(t) ==
    /\ mode = "batch" /\ ~Crashed
    /\ taskPc[t] = "send"
    /\ closeCount = 0
    /\ Len(queue) < chanCap
    /\ queue' = Append(queue, t)
    /\ TaskReturns(t)
    /\ UNCHANGED <<mode, tickerCount, maxConcurrency, chanCap, ctxDone, mainPc, mainIdx,
                   mainErr, received, closeCount, chunkStart, sendIdx>>

\* Goroutine of ticker t, line 150: the send on the open unbuffered channel
\* proceeds by handing the result to the consumer, which is receiving.
TaskSendDirect(t) ==
    /\ mode = "batch" /\ ~Crashed
    /\ taskPc[t] = "send"
    /\ closeCount = 0
    /\ chanCap = 0
    /\ received' = Append(received, t)
    /\ TaskReturns(t)
    /\ UNCHANGED <<mode, tickerCount, maxConcurrency, chanCap, ctxDone, mainPc, mainIdx,
                   mainErr, queue, closeCount, chunkStart, sendIdx>>

\* Goroutine of ticker t, line 150: the select takes the send case on the
\* closed channel, which panics.
TaskSendClosed(t) ==
    /\ mode = "batch" /\ ~Crashed
    /\ taskPc[t] = "send"
    /\ closeCount > 0
    /\ taskPc' = [taskPc EXCEPT ![t] = "panic"]
    /\ UNCHANGED <<mode, tickerCount, maxConcurrency, chanCap, ctxDone, mainPc, mainIdx,
                   mainErr, semaphore, batchWg, queue, received, closeCount, chunkStart, sendIdx>>

\* Goroutine of ticker t, lines 151-152: the select takes the ctx.Done()
\* case and the goroutine returns without sending.
TaskCtxReturn(t) ==
    /\ mode = "batch" /\ ~Crashed
    /\ taskPc[t] = "send"
    /\ ctxDone
    /\ TaskReturns(t)
    /\ UNCHANGED <<mode, tickerCount, maxConcurrency, chanCap, ctxDone, mainPc, mainIdx,
                   mainErr, queue, received, closeCount, chunkStart, sendIdx>>

\* End (exclusive, 1-based) of the chunk that starts at i: lines 169-172.
ChunkEnd(i) == IF i + batchSize > tickerCount + 1 THEN tickerCount + 1 ELSE i + batchSize

\* Mutation of ChunkLoopDone: the loop stops before a last partial chunk.
ChunkLoopDoneEarly(i) == i + batchSize > tickerCount + 1

\* ScrapeTickersOptimized, line 168: the chunk loop ends when `i < len(tickers)`
\* fails (i is 1-based here).
ChunkLoopDone(i) == i > tickerCount

\* ScrapeTickersOptimized, lines 168-175, and processBatch, lines 192-210:
\* the chunk loop has a next chunk; processBatch builds its URLs and GetBatch
\* returns (ctx is not looked at).
OptFetch ==
    /\ mode = "optimized" /\ mainPc = "chunk"
    /\ ~ChunkLoopDone(chunkStart)
    /\ mainPc' = "chunk_send"
    /\ sendIdx' = chunkStart
    /\ UNCHANGED <<mode, tickerCount, maxConcurrency, chanCap, ctxDone, mainIdx, mainErr,
                   taskPc, semaphore, batchWg, queue, received, closeCount, chunkStart>>

\* processBatch, lines 213-251: the result of ticker sendIdx is built and
\* the select sends it into the buffer of resultsChan.
OptSend ==
    /\ mode = "optimized" /\ mainPc = "chunk_send"
    /\ sendIdx < ChunkEnd(chunkStart)
    /\ Len(queue) < chanCap
    /\ queue' = Append(queue, sendIdx)
    /\ sendIdx' = sendIdx + 1
    /\ UNCHANGED <<mode, tickerCount, maxConcurrency, chanCap, ctxDone, mainPc, mainIdx,
                   mainErr, taskPc, semaphore, batchWg, received, closeCount, chunkStart>>

\* processBatch, line 251: the send on the unbuffered channel hands the
\* result to the consumer, which is receiving.
OptSendDirect ==
    /\ mode = "optimized" /\ mainPc = "chunk_send"
    /\ sendIdx < ChunkEnd(chunkStart)
    /\ chanCap = 0
    /\ received' = Append(received, sendIdx)
    /\ sendIdx' = sendIdx + 1
    /\ UNCHANGED <<mode, tickerCount, maxConcurrency, chanCap, ctxDone, mainPc, mainIdx,
                   mainErr, taskPc, semaphore, batchWg, queue, closeCount, chunkStart>>

\* processBatch, lines 252-253: the select takes ctx.Done() and processBatch
\* returns ctx.Err(), which ScrapeTickersOptimized logs (line 176).
OptSendCancelled ==
    /\ mode = "optimized" /\ mainPc = "chunk_send"
    /\ sendIdx < ChunkEnd(chunkStart)
    /\ ctxDone
    /\ mainPc' = "chunk_check"
    /\ UNCHANGED <<mode, tickerCount, maxConcurrency, chanCap, ctxDone, mainIdx, mainErr,
                   taskPc, semaphore, batchWg, queue, received, closeCount, chunkStart, sendIdx>>

\* processBatch, line 257: every ticker of the chunk was sent, return nil.
OptChunkDone ==
    /\ mode = "optimized" /\ mainPc = "chunk_send"
    /\ sendIdx = ChunkEnd(chunkStart)
    /\ mainPc' = "chunk_check"
    /\ UNCHANGED <<mode, tickerCount, maxConcurrency, chanCap, ctxDone, mainIdx, mainErr,
                   taskPc, semaphore, batchWg, queue, received, closeCount, chunkStart, sendIdx>>

\* Mutation of CancelObserved: the check between two chunks never sees the
\* cancellation.
CancelObservedNever(done) == FALSE

\* ScrapeTickersOptimized, lines 180-184: the select takes `<-ctx.Done()`
\* iff ctx is done, else its default.
CancelObserved(done) == done

\* ScrapeTickersOptimized, lines 180-184 and 168: the check of ctx after the
\* chunk: return ctx.Err() (and close) if it is done, else `i += batchSize`.
OptCheck ==
    /\ mode = "optimized" /\ mainPc = "chunk_check"
    /\ IF CancelObserved(ctxDone)
       THEN /\ mainPc' = "returned"
            /\ mainErr' = "ctx"
            /\ closeCount' = closeCount + 1
            /\ UNCHANGED chunkStart
       ELSE /\ mainPc' = "chunk"
            /\ chunkStart' = chunkStart + batchSize
            /\ UNCHANGED <<mainErr, closeCount>>
    /\ UNCHANGED <<mode, tickerCount, maxConcurrency, chanCap, ctxDone, mainIdx,
                   taskPc, semaphore, batchWg, queue, received, sendIdx>>

\* ScrapeTickersOptimized, line 187: the chunk loop is over, return nil; the
\* deferred close(resultsChan) runs.
OptReturn ==
    /\ mode = "optimized" /\ mainPc = "chunk"
    /\ ChunkLoopDone(chunkStart)
    /\ mainPc' = "returned"
    /\ mainErr' = "nil"
    /\ closeCount' = closeCount + 1
    /\ UNCHANGED <<mode, tickerCount, maxConcurrency, chanCap, ctxDone, mainIdx,
                   taskPc, semaphore, batchWg, queue, received, chunkStart, sendIdx>>

ScrapeNext ==
    \/ Cancel /\ UNCHANGED notScrape
    \/ Receive /\ UNCHANGED notScrape
    \/ BatchLaunch /\ UNCHANGED notScrape
    \/ BatchCancelReturn /\ UNCHANGED notScrape
    \/ BatchLoopEnd /\ UNCHANGED notScrape
    \/ BatchWaitReturn /\ UNCHANGED notScrape
    \/ \E t \in Tasks : TaskAcquire(t) /\ UNCHANGED notScrape
    \/ \E t \in Tasks : TaskScrape(t) /\ UNCHANGED notScrape
    \/ \E t \in Tasks : TaskSend(t) /\ UNCHANGED notScrape
    \/ \E t \in Tasks : TaskSendDirect(t) /\ UNCHANGED notScrape
    \/ \E t \in Tasks : TaskSendClosed(t) /\ UNCHANGED notScrape
    \/ \E t \in Tasks : TaskCtxReturn(t) /\ UNCHANGED notScrape
    \/ OptFetch /\ UNCHANGED notScrape
    \/ OptSend /\ UNCHANGED notScrape
    \/ OptSendDirect /\ UNCHANGED notScrape
    \/ OptSendCancelled /\ UNCHANGED notScrape
    \/ OptChunkDone /\ UNCHANGED notScrape
    \/ OptCheck /\ UNCHANGED notScrape
    \/ OptReturn /\ UNCHANGED notScrape

SpecScrape == ScrapeInit /\ [][ScrapeNext]_vars

\* A call of ScrapeTickersBatch whose context is never cancelled and whose
\* consumer keeps receiving. Every goroutine that can take a step eventually
\* takes one (the Go scheduler runs every runnable goroutine).
DeliverInit == ScrapeInit /\ mode = "batch"

DeliverNext ==
    \/ Receive /\ UNCHANGED notScrape
    \/ BatchLaunch /\ UNCHANGED notScrape
    \/ BatchLoopEnd /\ UNCHANGED notScrape
    \/ BatchWaitReturn /\ UNCHANGED notScrape
    \/ \E t \in Tasks : TaskAcquire(t) /\ UNCHANGED notScrape
    \/ \E t \in Tasks : TaskScrape(t) /\ UNCHANGED notScrape
    \/ \E t \in Tasks : TaskSend(t) /\ UNCHANGED notScrape
    \/ \E t \in Tasks : TaskSendDirect(t) /\ UNCHANGED notScrape

SpecScrapeDeliver == DeliverInit /\ [][DeliverNext]_vars /\ WF_vars(DeliverNext)

(***************************************************************************)
(* Properties of the scrape fan-out                                         *)
(***************************************************************************)
\* C5: ScrapeTickersBatch over n tickers with no cancellation and a consumer
\* that keeps receiving delivers exactly n results, one per ticker; the
\* stream is then closed and no task of the call is still running.
C5_DeliversAll ==
    <>[](/\ mainPc = "returned" /\ mainErr = "nil"
         /\ closeCount = 1
         /\ queue = <<>>
         /\ Len(received) = tickerCount
         /\ {received[i] : i \in 1..Len(received)} = Tickers
         /\ LiveTasks = {} /\ semaphore = 0 /\ batchWg = 0)

\* C5 witness: more tickers than the concurrency cap, all delivered, the
\* call returned.
C5_Witness ==
    /\ mode = "batch" /\ tickerCount = NumTickers /\ maxConcurrency < tickerCount
    /\ mainPc = "returned" /\ Len(received) = tickerCount /\ closeCount = 1

\* C6: at every moment at most maxConcurrency tickers are in flight (hold a
\* semaphore token), so at most maxConcurrency ScrapeTicker calls execute.
C6_BoundedInFlight ==
    /\ Cardinality({t \in Tasks : taskPc[t] \in {"scrape", "send"}}) <= maxConcurrency
    /\ Cardinality(ScrapingTasks) <= maxConcurrency

\* C6 witness: the cap is reached by ScrapeTicker calls while another task
\* waits for the semaphore.
C6_Witness ==
    /\ maxConcurrency = MaxConc
    /\ Cardinality(ScrapingTasks) = maxConcurrency
    /\ \E t \in Tasks : taskPc[t] = "acquire"

\* C7: in every execution of ScrapeTickersBatch and ScrapeTickersOptimized,
\* cancelled or not, resultsChan is closed at most once, it is closed exactly
\* once when the call has returned, and it is not closed while ctx is
\* uncancelled and some ticker has not completed.
C7_ClosedOnce ==
    /\ [](closeCount <= 1 /\ (mainPc = "returned" <=> closeCount = 1))
    /\ [][closeCount' # closeCount
            => /\ closeCount' = 1
               /\ (ctxDone \/ (Tickers \subseteq SentTickers /\ LiveTasks = {}))]_vars

\* C7 witness: a cancelled ScrapeTickersBatch closed the stream while tasks
\* were still in flight.
C7_Witness ==
    /\ mode = "batch" /\ closeCount = 1 /\ ctxDone /\ LiveTasks # {}

\* C8: once ctx is cancelled, no ticker that has not begun its scrape (not
\* launched yet, or waiting for the semaphore) begins ScrapeTicker, while
\* results already queued can still be received.
C8_NoStartAfterCancel ==
    /\ [][\A t \in Tasks :
            (ctxDone /\ taskPc[t] \in {"none", "acquire"}) => taskPc'[t] # "scrape"]_vars
    /\ [](ctxDone /\ queue # <<>> /\ ~Crashed => ENABLED Receive)

(***************************************************************************)
(* Page handling: OxyLabsClient.GetBatch, Scraper.ScrapeTicker,             *)
(* Scraper.processBatch and the HealthMonitor they report to                *)
(***************************************************************************)
\* NewHealthMonitor, health_monitor.go:50: `maxRecentFailures: 50`.
maxRecentFailures == 50

\* The tickers of the page-level specification.
PageTickers == {"A"}

\* The three pages of a ticker, scraper.go:48-52: overview, financials, disclosure.
Pages == 1..3

\* The URLs of ticker t, in the order of scraper.go:48-52 (a URL is the pair
\* of its ticker and its page).
TickerURLs(t) == <<(<<t, 1>>), (<<t, 2>>), (<<t, 3>>)>>

\* processBatch, lines 193-207: allURLs of a chunk of tickers.
RECURSIVE AllURLs(_)
AllURLs(tks) == IF tks = <<>> THEN <<>> ELSE TickerURLs(Head(tks)) \o AllURLs(Tail(tks))

Min(a, b) == IF a < b THEN a ELSE b

\* What the proxy can answer to a GetBatch of n URLs: the batch request fails
\* as a whole (request construction, transport, body read or envelope
\* decode) and each URL's own Get then succeeds or fails; or the envelope
\* decodes and holds any number of result entries, each good (status 200,
\* parsable markup) or bad.
Responses(n) ==
    {[batchFails |-> TRUE, results |-> <<>>, single |-> f] :
        f \in [1..n -> {"ok", "bad"}]}
    \cup
    {[batchFails |-> FALSE, results |-> r, single |-> [i \in 1..n |-> "ok"]] :
        r \in UNION {[1..k -> {"ok", "bad"}] : k \in 0..(n + 1)}}

\* OxyLabsClient.GetBatch, oxylabs_client.go:142-263: the keys of the docs
\* map and of the errors map it returns.
GetBatch(urls, resp) ==
    IF resp.batchFails
    THEN [docs |-> {urls[i] : i \in {k \in 1..Len(urls) : resp.single[k] = "ok"}},
          errors |-> {urls[i] : i \in {k \in 1..Len(urls) : resp.single[k] # "ok"}}]
    ELSE LET m == Min(Len(resp.results), Len(urls))
         IN [docs |-> {urls[i] : i \in {k \in 1..m : resp.results[k] = "ok"}},
             errors |-> {urls[i] : i \in {k \in 1..m : resp.results[k] # "ok"}}]

\* HealthMonitor.RecordSuccess, health_monitor.go:58-66, at time t.
RecordSuccess(h, ticker, t) ==
    [h EXCEPT !.total = @ + 1, !.successful = @ + 1, !.consecutive = 0,
              !.lastSuccessTime = t]

\* Mutation of KeepRecent: the record that just arrived is the one dropped.
KeepRecentDropNewest(ring) ==
    IF Len(ring) > maxRecentFailures THEN SubSeq(ring, 1, Len(ring) - 1) ELSE ring

\* RecordFailure, lines 87-89: `if len(h.recentFailures) > h.maxRecentFailures
\* { h.recentFailures = h.recentFailures[1:] }`.
KeepRecent(ring) == IF Len(ring) > maxRecentFailures THEN Tail(ring) ELSE ring

\* HealthMonitor.RecordFailure, health_monitor.go:69-90, at time t. An error
\* message is the set of the key words of categorizeError it contains.
RecordFailure(h, ticker, errorMsg, url, t) ==
    LET failure == [timestamp |-> t, ticker |-> ticker, error |-> errorMsg, url |-> url]
    IN [h EXCEPT !.total = @ + 1, !.failed = @ + 1, !.consecutive = @ + 1,
                 !.lastFailureTime = t,
                 !.recent = KeepRecent(Append(h.recent, failure))]

\* The pages of ticker t found in the docs map: they are parsed into the result.
ParsedPages(t, fetched) == {j \in Pages : <<t, j>> \in fetched.docs}

\* The pages of ticker t for which the `else if err, exists := errors[url]`
\* branch runs: an error string is appended for each, in page order.
RECURSIVE ErrorPagesFrom(_, _, _)
ErrorPagesFrom(t, fetched, j) ==
    IF j > 3 THEN <<>>
    ELSE (IF <<t, j>> \notin fetched.docs /\ <<t, j>> \in fetched.errors
          THEN <<j>> ELSE <<>>) \o ErrorPagesFrom(t, fetched, j + 1)

ErrorPages(t, fetched) == ErrorPagesFrom(t, fetched, 1)

\* The ScrapedData built for ticker t: which pages were parsed and the page
\* of each entry of Errors.
Scraped(t, fetched) ==
    [ticker |-> t, pages |-> ParsedPages(t, fetched), errors |-> ErrorPages(t, fetched)]

\* ScrapeTicker, lines 61-95: one RecordFailure per page that took the error
\* branch, in page order (the message of a failed page holds none of the
\* key words of categorizeError).
RECURSIVE RecordFailures(_, _, _)
RecordFailures(h, t, errs) ==
    IF errs = <<>> THEN h
    ELSE RecordFailures(RecordFailure(h, t, {}, <<t, Head(errs)>>, now), t, Tail(errs))

\* Mutation of OverallSuccess: success is reported only when no page failed.
OverallSuccessStrict(hasErrors, nDocs) == ~hasErrors

\* ScrapeTicker, line 98: `if !hasErrors || len(docs) > 0`.
OverallSuccess(hasErrors, nDocs) == ~hasErrors \/ nDocs > 0

\* ScrapeTicker, scraper.go:37-109, for ticker t and proxy answer resp.
ScrapeTicker(t, resp) ==
    LET fetched == GetBatch(TickerURLs(t), resp)
        scraped == Scraped(t, fetched)
        hasErrors == scraped.errors # <<>>
        h1 == RecordFailures(hm, t, scraped.errors)
    IN /\ hm.total + 3 <= MaxHmTotal
       /\ hm' = IF OverallSuccess(hasErrors, Cardinality(fetched.docs))
                THEN RecordSuccess(h1, t, now) ELSE h1
       /\ lastCall' = [op |-> "ScrapeTicker", tickers |-> <<t>>, docs |-> fetched.docs,
                       errors |-> fetched.errors, results |-> <<scraped>>, err |-> "nil"]

\* processBatch, lines 213-247: the results built for the tickers of a chunk.
RECURSIVE ChunkResults(_, _)
ChunkResults(tks, fetched) ==
    IF tks = <<>> THEN <<>>
    ELSE <<Scraped(Head(tks), fetched)>> \o ChunkResults(Tail(tks), fetched)

\* processBatch, scraper.go:191-258, for a chunk of distinct tickers and
\* proxy answer resp, with a consumer that takes every result: the health
\* monitor is not called.
ProcessBatch(tks, resp) ==
    LET fetched == GetBatch(AllURLs(tks), resp)
    IN /\ lastCall' = [op |-> "processBatch", tickers |-> tks, docs |-> fetched.docs,
                       errors |-> fetched.errors, results |-> ChunkResults(tks, fetched),
                       err |-> "nil"]
       /\ UNCHANGED hm

\* The chunks of the page-level specification.
PageChunks == {<<"A", "B">>}

\* The proxy answers to the GetBatch of ScrapeTicker (3 URLs) and of
\* processBatch on a chunk of PageChunks.
TickerResponses == Responses(3)

ChunkResponses == [n \in {3 * Len(tks) : tks \in PageChunks} |-> Responses(n)]

PagesInit ==
    /\ PipelineIdle
    /\ ScrapeIdle
    /\ PagesIdle
    /\ FetchIdle /\ RateIdle /\ requests = <<>>
    /\ MonitorIdle
    /\ EngineIdle
    /\ CycleIdle
    /\ ThreadsIdle

PagesNext ==
    \/ \E t \in PageTickers : \E resp \in TickerResponses :
            ScrapeTicker(t, resp) /\ UNCHANGED notPages
    \/ \E tks \in PageChunks : \E resp \in ChunkResponses[3 * Len(tks)] :
            ProcessBatch(tks, resp) /\ UNCHANGED notPages

SpecPages == PagesInit /\ [][PagesNext]_vars

(***************************************************************************)
(* Properties of the page handling                                          *)
(***************************************************************************)
\* The pages of ticker t whose fetch failed in the call c.
FailedPages(c, t) == {j \in Pages : <<t, j>> \in c.errors}

\* The number of entries of the error list errs that are about page j.
ErrorCount(errs, j) == Cardinality({i \in 1..Len(errs) : errs[i] = j})

\* C9: ScrapeTicker reports one overall success to the HealthMonitor whenever
\* at least one page was obtained, even if the other pages failed; it always
\* returns the snapshot merged from the pages that succeeded and never an error.
C9_PartialSuccess ==
    [][(hm' # hm /\ lastCall'.op = "ScrapeTicker")
        => LET c == lastCall'
               t == c.tickers[1]
           IN /\ c.err = "nil"
              /\ Len(c.results) = 1
              /\ c.results[1].pages = {j \in Pages : <<t, j>> \in c.docs}
              /\ (c.docs # {} => hm'.successful = hm.successful + 1)]_vars

\* C9 witness: one page obtained and the two others failed, and the call
\* was counted as one success next to the two failures.
C9_Witness ==
    /\ lastCall.op = "ScrapeTicker"
    /\ Cardinality(lastCall.docs) = 1 /\ Cardinality(lastCall.errors) = 2
    /\ hm.successful = 1 /\ hm.failed = 2

\* C10: a page whose fetch failed never aborts the call and surfaces in the
\* HealthMonitor: after ScrapeTicker and after processBatch every ticker of
\* the call has its result, the result of the failing ticker carries one
\* error string for the failed page, and one RecordFailure per failed page
\* was made.
C10_FailureSurfaces ==
    [][(hm' # hm \/ lastCall' # lastCall)
        => LET c == lastCall'
           IN /\ c.err = "nil"
              /\ Len(c.results) = Len(c.tickers)
              /\ \A i \in 1..Len(c.tickers) :
                    /\ c.results[i].ticker = c.tickers[i]
                    /\ \A j \in FailedPages(c, c.tickers[i]) :
                            ErrorCount(c.results[i].errors, j) = 1
              /\ hm'.failed = hm.failed + Cardinality(c.errors)
              /\ Len(hm'.recent) = Len(hm.recent) + Cardinality(c.errors)]_vars

(***************************************************************************)
(* OxyLabsClient.Get and OxyLabsClient.GetBatch, call by call               *)
(***************************************************************************)
\* Largest number of URLs handed to GetBatch.
MaxUrls == 2

\* The URLs GetBatch is called with.
FetchURLs == {"u1", "u2"}

\* The exchange of one single request that succeeds at every layer.
GoodAnswer ==
    [requestOk |-> TRUE, transportOk |-> TRUE, readOk |-> TRUE, httpStatus |-> 200,
     envelopeOk |-> TRUE, nResults |-> 1, pageStatus |-> 200, markupOk |-> TRUE]

\* What can happen to a single request: it succeeds, or exactly one layer
\* fails (the request cannot be built, the transport call fails, the body
\* cannot be read, the proxy answers with another HTTP status, the envelope
\* does not decode, it holds no result, the target page answered with
\* another status, the markup does not parse).
SingleAnswers ==
    {GoodAnswer,
     [GoodAnswer EXCEPT !.requestOk = FALSE],
     [GoodAnswer EXCEPT !.transportOk = FALSE],
     [GoodAnswer EXCEPT !.readOk = FALSE],
     [GoodAnswer EXCEPT !.httpStatus = 500],
     [GoodAnswer EXCEPT !.envelopeOk = FALSE],
     [GoodAnswer EXCEPT !.nResults = 0],
     [GoodAnswer EXCEPT !.pageStatus = 404],
     [GoodAnswer EXCEPT !.markupOk = FALSE]}

\* OxyLabsClient.Get, oxylabs_client.go:67-139, on the exchange a: the
\* document or the error it returns.
Get(a) ==
    IF ~a.requestOk THEN [doc |-> FALSE, err |-> "failed to create request"]
    ELSE IF ~a.transportOk THEN [doc |-> FALSE, err |-> "failed to perform request"]
    ELSE IF ~a.readOk THEN [doc |-> FALSE, err |-> "failed to read response"]
    ELSE IF a.httpStatus # 200 THEN [doc |-> FALSE, err |-> "unexpected status code"]
    ELSE IF ~a.envelopeOk THEN [doc |-> FALSE, err |-> "failed to parse OxyLabs response"]
    ELSE IF a.nResults = 0 THEN [doc |-> FALSE, err |-> "no results returned from OxyLabs"]
    ELSE IF a.pageStatus # 200 THEN [doc |-> FALSE, err |-> "target page returned status code"]
    ELSE IF ~a.markupOk THEN [doc |-> FALSE, err |-> "failed to parse HTML content"]
    ELSE [doc |-> TRUE, err |-> "nil"]

\* Whether Get hands a request to httpClient.Do (line 97): it does unless
\* the request could not be built.
GetSends(a) == a.requestOk

\* What can happen to the batch request of GetBatch: it fails at one of the
\* five stages that fall back (lines 162-239), or the envelope decodes and
\* holds any number of result entries.
BatchAnswers(n) ==
    {[stage |-> s, results |-> <<>>] :
        s \in {"marshal", "request", "transport", "read", "decode"}}
    \cup
    {[stage |-> "ok", results |-> r] :
        r \in UNION {[1..k -> {"ok", "page_status", "parse"}] : k \in 0..(n + 1)}}

\* The stages of the batch request at which GetBatch falls back.
FallsBack(stage) == stage \in {"marshal", "request", "transport", "read", "decode"}

\* The stages at which the batch request was handed to httpClient.Do (line 196).
BatchSends(stage) == stage \in {"transport", "read", "decode", "ok"}

\* A map after `m[key] = value`.
MapPut(m, key, value) == [k \in (DOMAIN m) \cup {key} |-> IF k = key THEN value ELSE m[k]]

\* GetBatch, lines 242-260: the maps after the result entries from the i-th on.
RECURSIVE ProcessResults(_, _, _, _, _)
ProcessResults(urls, results, i, docs, errors) ==
    IF i > Len(results) \/ i > Len(urls) THEN [docs |-> docs, errors |-> errors]
    ELSE IF results[i] = "page_status"
         THEN ProcessResults(urls, results, i + 1, docs,
                             MapPut(errors, urls[i], "target page returned status code"))
    ELSE IF results[i] = "parse"
         THEN ProcessResults(urls, results, i + 1, docs,
                             MapPut(errors, urls[i], "failed to parse HTML content"))
    ELSE ProcessResults(urls, results, i + 1, docs \cup {urls[i]}, errors)

\* GetBatch from its entry to the fallback loop or, when the envelope
\* decoded, to its return.
GetBatchBegin ==
    /\ fetchPc = "idle"
    /\ \E b \in BatchAnswers(Len(fetchUrls)) :
        /\ batchStage' = b.stage
        /\ requests' = IF BatchSends(b.stage)
                       THEN Append(requests, [kind |-> "batch", url |-> fetchUrls])
                       ELSE requests
        /\ IF FallsBack(b.stage)
           THEN /\ fetchPc' = "fallback"
                /\ UNCHANGED <<fetchDocs, fetchErrors>>
           ELSE LET maps == ProcessResults(fetchUrls, b.results, 1, {}, <<>>)
                IN /\ fetchPc' = "done"
                   /\ fetchDocs' = maps.docs
                   /\ fetchErrors' = maps.errors
    /\ UNCHANGED <<fetchUrls, fetchIdx, proxy, getCalls, requestsPerSecond, permits, tick, starts,
                 clientResult>>

\* Mutation of FallbackMore: the fallback loop stops at the first URL whose
\* single fetch failed.
FallbackMoreUntilError(i, urls, errors) == i <= Len(urls) /\ errors = <<>>

\* Whether the fallback loop `for _, url := range urls` has another URL.
FallbackMore(i, urls, errors) == i <= Len(urls)

\* One iteration of the fallback loop (lines 165-172 and its four copies):
\* c.Get on the next URL, the result stored under the URL.
FallbackGet ==
    /\ fetchPc = "fallback"
    /\ FallbackMore(fetchIdx, fetchUrls, fetchErrors)
    /\ LET url == fetchUrls[fetchIdx]
           res == Get(proxy[url])
       IN /\ getCalls' = Append(getCalls, url)
          /\ requests' = IF GetSends(proxy[url])
                         THEN Append(requests, [kind |-> "single", url |-> url])
                         ELSE requests
          /\ IF res.doc
             THEN fetchDocs' = fetchDocs \cup {url} /\ UNCHANGED fetchErrors
             ELSE fetchErrors' = MapPut(fetchErrors, url, res.err) /\ UNCHANGED fetchDocs
    /\ fetchIdx' = fetchIdx + 1
    /\ UNCHANGED <<fetchPc, fetchUrls, proxy, batchStage, requestsPerSecond, permits, tick,
                 starts, clientResult>>

\* The end of the fallback loop: `return docs, errors`.
FallbackReturn ==
    /\ fetchPc = "fallback"
    /\ ~FallbackMore(fetchIdx, fetchUrls, fetchErrors)
    /\ fetchPc' = "done"
    /\ UNCHANGED <<fetchUrls, fetchIdx, fetchDocs, fetchErrors, proxy, batchStage, getCalls,
                   requests, requestsPerSecond, permits, tick, starts, clientResult>>

\* The sequences of at most n URLs.
UrlLists(n) == UNION {[1..k -> FetchURLs] : k \in 0..n}

\* A GetBatch call on any list of URLs, duplicates included, with a proxy
\* that answers the single request for a URL the same way each time.
FetchInit ==
    /\ PipelineIdle
    /\ ScrapeIdle
    /\ PagesIdle
    /\ RateIdle /\ requests = <<>>
    /\ MonitorIdle
    /\ EngineIdle
    /\ CycleIdle
    /\ ThreadsIdle
    /\ fetchPc = "idle"
    /\ fetchUrls \in UrlLists(MaxUrls)
    /\ fetchIdx = 1
    /\ fetchDocs = {}
    /\ fetchErrors = <<>>
    /\ proxy \in [FetchURLs -> SingleAnswers]
    /\ batchStage = "none"
    /\ getCalls = <<>>

FetchNext ==
    \/ GetBatchBegin /\ UNCHANGED notClient
    \/ FallbackGet /\ UNCHANGED notClient
    \/ FallbackReturn /\ UNCHANGED notClient

SpecFetch == FetchInit /\ [][FetchNext]_vars

(***************************************************************************)
(* Properties of Get and GetBatch                                           *)
(***************************************************************************)
\* The maps that calling Get on each URL of urls, one after the other,
\* gives when the results are stored under the URLs.
RECURSIVE Individually(_, _, _)
Individually(urls, docs, errors) ==
    IF urls = <<>> THEN [docs |-> docs, errors |-> errors]
    ELSE LET res == Get(proxy[Head(urls)])
         IN IF res.doc
            THEN Individually(Tail(urls), docs \cup {Head(urls)}, errors)
            ELSE Individually(Tail(urls), docs, MapPut(errors, Head(urls), res.err))

\* C11: when the batch request of GetBatch fails at the batch level (request
\* construction, transport call, reading or decoding the envelope), GetBatch
\* has called Get exactly once per URL, in the order of urls, and returns the
\* content map and the error map that calling Get on each URL alone gives.
C11_FallbackEquivalence ==
    (fetchPc = "done" /\ FallsBack(batchStage))
        => /\ getCalls = fetchUrls
           /\ fetchDocs = Individually(fetchUrls, {}, <<>>).docs
           /\ fetchErrors = Individually(fetchUrls, {}, <<>>).errors

\* C11 witness: the envelope of the batch did not decode, the fallback
\* fetched two different URLs, the first failed and the second succeeded.
C11_Witness ==
    /\ fetchPc = "done" /\ batchStage = "decode"
    /\ Len(fetchUrls) = 2 /\ fetchUrls[1] # fetchUrls[2]
    /\ fetchUrls[1] \in DOMAIN fetchErrors
    /\ fetchUrls[2] \in fetchDocs

\* C12: every request handed to the proxy by Get, the Get calls of the
\* GetBatch fallback included, is preceded by the acquisition of one permit
\* of the rate limiter by the call that sends it.
C12_PermitBeforeRequest ==
    [][(Len(requests') > Len(requests) /\ requests'[Len(requests')].kind = "single")
        => permits' = permits - 1]_vars

(***************************************************************************)
(* Client: the rate limiter of NewClient and Client.Get                     *)
(***************************************************************************)
\* Largest requestsPerSecond handed to NewClient.
MaxRate == 2

\* Number of ticks of the refill ticker that are followed.
MaxTicks == 4

\* NewClient, client.go:20-54: the channel of capacity requestsPerSecond is
\* filled; the ticker of the refill goroutine has period 1s / requestsPerSecond
\* and has not fired yet.
RateInit ==
    /\ PipelineIdle
    /\ ScrapeIdle
    /\ PagesIdle
    /\ FetchIdle
    /\ MonitorIdle
    /\ EngineIdle
    /\ CycleIdle
    /\ ThreadsIdle
    /\ requests = <<>>
    /\ requestsPerSecond \in 1..MaxRate
    /\ permits = requestsPerSecond
    /\ tick = 0
    /\ starts = <<0>>
    /\ clientResult = "none"

\* The refill goroutine, lines 34-39: `select { case rateLimiter <- struct{}{}: default: }`.
Refilled(tokens, capacity) == IF tokens < capacity THEN tokens + 1 ELSE tokens

\* One period of the ticker passes and the refill goroutine handles the tick.
Refill ==
    /\ tick < MaxTicks
    /\ tick' = tick + 1
    /\ permits' = Refilled(permits, requestsPerSecond)
    /\ starts' = Append(starts, 0)
    /\ UNCHANGED <<fetchPc, fetchUrls, fetchIdx, fetchDocs, fetchErrors, proxy, batchStage,
                   getCalls, requests, requestsPerSecond, clientResult>>

\* Client.Get, lines 57-92, when the select takes a token: the request is
\* built and sent, and the document or an error is returned.
ClientGet(url, a) ==
    /\ permits > 0
    /\ permits' = permits - 1
    /\ starts' = [starts EXCEPT ![tick + 1] = @ + 1]
    /\ requests' = IF a.requestOk THEN Append(requests, [kind |-> "get", url |-> url])
                   ELSE requests
    /\ clientResult' = IF ~a.requestOk THEN "failed to create request"
                       ELSE IF ~a.transportOk THEN "failed to perform request"
                       ELSE IF a.httpStatus # 200 THEN "unexpected status code"
                       ELSE IF ~a.markupOk THEN "failed to parse HTML"
                       ELSE "doc"
    /\ UNCHANGED <<fetchPc, fetchUrls, fetchIdx, fetchDocs, fetchErrors, proxy, batchStage,
                   getCalls, requestsPerSecond, tick>>

\* Client.Get when the select takes ctx.Done(): `return nil, ctx.Err()`.
ClientGetCancelled ==
    /\ clientResult' = "ctx.Err()"
    /\ UNCHANGED <<fetchPc, fetchUrls, fetchIdx, fetchDocs, fetchErrors, proxy, batchStage,
                   getCalls, requests, requestsPerSecond, permits, tick, starts>>

\* What the server can answer to the plain GET of Client.Get.
ClientAnswers ==
    {GoodAnswer,
     [GoodAnswer EXCEPT !.requestOk = FALSE],
     [GoodAnswer EXCEPT !.transportOk = FALSE],
     [GoodAnswer EXCEPT !.httpStatus = 500],
     [GoodAnswer EXCEPT !.markupOk = FALSE]}

\* The URL Client.Get is called with.
ClientURLs == {"u1"}

RateNext ==
    \/ Refill /\ UNCHANGED notClient
    \/ \E url \in ClientURLs : \E a \in ClientAnswers : ClientGet(url, a) /\ UNCHANGED notClient
    \/ ClientGetCancelled /\ UNCHANGED notClient

SpecRate == RateInit /\ [][RateNext]_vars

(***************************************************************************)
(* Properties of the rate limiter                                           *)
(***************************************************************************)
\* The number of Get calls that passed the limiter in the tick periods i..j.
RECURSIVE StartsBetween(_, _)
StartsBetween(i, j) ==
    IF i > j \/ i > Len(starts) THEN 0 ELSE starts[i] + StartsBetween(i + 1, j)

\* C13: a limiter built for N requests per second admits at most N fetch
\* starts in any rolling one-second window (N consecutive periods of the
\* refill ticker), whatever the arrival pattern of the Get calls.
C13_RollingWindow ==
    \A i \in 1..Len(starts) : StartsBetween(i, i + requestsPerSecond - 1) <= requestsPerSecond

(***************************************************************************)
(* HealthMonitor: RecordSuccess, RecordFailure, Reset and GetHealthStatus   *)
(***************************************************************************)
\* Cap on the RecordSuccess and RecordFailure calls of the status specification.
MaxHealthCalls == 11

\* Cap on the RecordFailure calls of the status specification.
MaxHealthFailures == 6

\* Largest value of the clock.
MaxClock == 3

\* Cap on the RecordFailure calls of the ring specification.
MaxArrivals == 52

\* Cap on the RecordSuccess calls of the ring specification.
MaxRingSuccesses == 1

\* NewHealthMonitor, line 51: `failureThreshold: 0.2`, in percent.
failureThresholdPct == 20

\* NewHealthMonitor, line 52: `consecutiveThreshold: 5`.
consecutiveThreshold == 5

\* time.Hour of line 147, in units of the clock.
Hour == 1

\* Mutation of SuccessRate: the share of the failed requests is taken.
SuccessRateOfFailed(h) == IF h.total > 0 THEN <<h.failed, h.total>> ELSE <<1, 1>>

\* GetHealthStatus, lines 111-115: SuccessRate as the fraction <<numerator,
\* denominator>> (the code holds the float64 quotient).
SuccessRate(h) == IF h.total > 0 THEN <<h.successful, h.total>> ELSE <<1, 1>>

\* Mutation of HighFailureRate: the minimum of 10 requests is not awaited.
HighFailureRateAnyTotal(h) ==
    SuccessRate(h)[1] * 100 < (100 - failureThresholdPct) * SuccessRate(h)[2]

\* GetHealthStatus, line 129: `h.totalRequests >= 10 && status.SuccessRate <
\* (1.0-h.failureThreshold)`. 1.0-0.2 is the float64 0.8 and the quotient of
\* two counts is below it exactly when the fraction is below 4/5.
HighFailureRate(h) ==
    /\ h.total >= 10
    /\ SuccessRate(h)[1] * 100 < (100 - failureThresholdPct) * SuccessRate(h)[2]

\* Mutation of ManyConsecutive: the threshold itself does not count.
ManyConsecutiveStrict(h) == h.consecutive > consecutiveThreshold

\* GetHealthStatus, line 138: `h.consecutiveFailures >= h.consecutiveThreshold`.
ManyConsecutive(h) == h.consecutive >= consecutiveThreshold

\* GetHealthStatus, line 147: `!h.lastSuccessTime.IsZero() &&
\* time.Since(h.lastSuccessTime) > time.Hour`.
StaleSuccess(h, t) == h.lastSuccessTime # 0 /\ t - h.lastSuccessTime > Hour

\* categorizeError, lines 205-222, on the key words the message contains.
categorizeError(errorMsg) ==
    IF errorMsg \cap {"timeout", "deadline"} # {} THEN "timeout"
    ELSE IF errorMsg \cap {"rate limit", "429"} # {} THEN "rate_limit"
    ELSE IF errorMsg \cap {"unauthorized", "401", "403"} # {} THEN "authentication"
    ELSE IF errorMsg \cap {"network", "connection", "dns"} # {} THEN "network"
    ELSE "other"

\* analyzeFailurePatterns, lines 168-173: errorCounts[errorType].
ErrorCounts(ring, errorType) ==
    Cardinality({i \in 1..Len(ring) : categorizeError(ring[i].error) = errorType})

\* The issue analyzeFailurePatterns reports for a category (lines 178-199).
PatternIssue(errorType) ==
    CASE errorType = "timeout" -> "Frequent timeout errors detected"
      [] errorType = "rate_limit" -> "Rate limiting detected"
      [] errorType = "authentication" -> "Authentication errors detected"
      [] errorType = "network" -> "Network connectivity issues detected"

\* analyzeFailurePatterns, lines 162-202: the issues it appends (at most one
\* category is above one half of the ring, so the map order does not matter).
RECURSIVE PatternIssues(_, _)
PatternIssues(ring, types) ==
    IF Len(ring) < 3 \/ types = <<>> THEN <<>>
    ELSE (IF 2 * ErrorCounts(ring, Head(types)) > Len(ring)
          THEN <<PatternIssue(Head(types))>> ELSE <<>>) \o PatternIssues(ring, Tail(types))

\* GetHealthStatus, lines 93-159, at time t.
GetHealthStatus(h, t) ==
    [isHealthy |-> ~HighFailureRate(h) /\ ~ManyConsecutive(h) /\ ~StaleSuccess(h, t),
     totalRequests |-> h.total,
     successfulRequests |-> h.successful,
     failedRequests |-> h.failed,
     successRate |-> SuccessRate(h),
     consecutiveFailures |-> h.consecutive,
     lastFailureTime |-> h.lastFailureTime,
     lastSuccessTime |-> h.lastSuccessTime,
     recentFailures |-> h.recent,
     healthIssues |->
        (IF HighFailureRate(h) THEN <<"High failure rate detected (>20%)">> ELSE <<>>)
        \o (IF ManyConsecutive(h) THEN <<"Multiple consecutive failures detected">> ELSE <<>>)
        \o (IF StaleSuccess(h, t) THEN <<"No successful requests in the last hour">> ELSE <<>>)
        \o PatternIssues(h.recent, <<"timeout", "rate_limit", "authentication", "network">>)]

\* Mutation of Reset: the count of consecutive failures survives.
ResetKeepsConsecutive(h) ==
    [h EXCEPT !.total = 0, !.successful = 0, !.failed = 0,
              !.lastFailureTime = 0, !.lastSuccessTime = 0, !.recent = <<>>]

\* HealthMonitor.Reset, lines 225-236.
Reset(h) ==
    [h EXCEPT !.total = 0, !.successful = 0, !.failed = 0, !.consecutive = 0,
              !.lastFailureTime = 0, !.lastSuccessTime = 0, !.recent = <<>>]

\* A caller calls RecordSuccess.
CallRecordSuccess(ticker) ==
    /\ hm' = RecordSuccess(hm, ticker, now)
    /\ calls' = [calls EXCEPT !.op = "RecordSuccess", !.n = @ + 1, !.succ = @ + 1, !.run = 0]
    /\ UNCHANGED now

\* A caller calls RecordFailure.
CallRecordFailure(ticker, errorMsg, url) ==
    /\ hm' = RecordFailure(hm, ticker, errorMsg, url, now)
    /\ calls' = [calls EXCEPT !.op = "RecordFailure", !.n = @ + 1, !.arrivals = @ + 1,
                              !.fail = @ + 1, !.run = @ + 1]
    /\ UNCHANGED now

\* A caller calls Reset.
CallReset ==
    /\ hm' = Reset(hm)
    /\ calls' = [calls EXCEPT !.op = "Reset", !.succ = 0, !.fail = 0, !.run = 0]
    /\ UNCHANGED now

\* One hour passes.
ClockTick ==
    /\ now < MaxClock
    /\ now' = now + 1
    /\ calls' = [calls EXCEPT !.op = "tick"]
    /\ UNCHANGED hm

\* NewHealthMonitor at time 1.
HealthInit ==
    /\ PipelineIdle
    /\ ScrapeIdle
    /\ PagesIdle
    /\ FetchIdle /\ RateIdle /\ requests = <<>>
    /\ MonitorIdle
    /\ EngineIdle
    /\ CycleIdle
    /\ ThreadsIdle

\* The error messages of the status specification: each holds "timeout".
HealthErrors == {{"timeout"}}

\* Any interleaving of the calls on one monitor while time passes.
HealthNext ==
    \/ calls.n < MaxHealthCalls /\ CallRecordSuccess("A") /\ UNCHANGED notMonitor
    \/ /\ calls.n < MaxHealthCalls /\ calls.arrivals < MaxHealthFailures
       /\ \E errorMsg \in HealthErrors : CallRecordFailure("A", errorMsg, "")
       /\ UNCHANGED notMonitor
    \/ CallReset /\ UNCHANGED notMonitor
    \/ ClockTick /\ UNCHANGED notMonitor

SpecHealth == HealthInit /\ [][HealthNext]_vars

\* Long runs of failures on one monitor; the ticker of a RecordFailure call
\* is the number of the call, which tells the records of the ring apart.
RingNext ==
    \/ /\ calls.n - calls.arrivals < MaxRingSuccesses
       /\ CallRecordSuccess(0)
       /\ UNCHANGED notMonitor
    \/ /\ calls.arrivals < MaxArrivals
       /\ CallRecordFailure(calls.arrivals + 1, {}, "")
       /\ UNCHANGED notMonitor
    \/ CallReset /\ UNCHANGED notMonitor

SpecRing == HealthInit /\ [][RingNext]_vars

C15_RingKeepsNewest ==
    LET len == Len(hm.recent)
    IN /\ len <= 50
       /\ len = Min(calls.fail, 50)
       /\ \A i \in 1..len : hm.recent[i].ticker = calls.arrivals - len + i

\* C15 witness: a failure arrived at a full ring and the oldest record, the
\* one of the first call, is gone.
C15_Witness ==
    /\ calls.op = "RecordFailure" /\ calls.fail = 51
    /\ Len(hm.recent) = 50
    /\ hm.recent[1].ticker = calls.arrivals - 49
    /\ hm.recent[50].ticker = calls.arrivals

C17_SuccessRate ==
    LET rate == GetHealthStatus(hm, now).successRate
        total == calls.succ + calls.fail
    IN /\ rate[2] > 0
       /\ IF total = 0 THEN rate[1] = rate[2]
          ELSE rate[1] * total = calls.succ * rate[2]

\* C17 witness: three successes and one failure, rate 0.75.
C17_Witness ==
    /\ calls.succ = 3 /\ calls.fail = 1
    /\ GetHealthStatus(hm, now).successRate = <<3, 4>>

\* C18: Reset zeroes the four counters, clears the two time stamps and
\* empties the ring, so that GetHealthStatus right after it is the status of
\* a fresh monitor (successRate 1.0, healthy, no issues); the counters
\* change only in RecordSuccess, RecordFailure and Reset.
C18_ResetIsFresh ==
    [][/\ calls'.op = "Reset"
            => LET st == GetHealthStatus(hm', now')
               IN /\ hm' = NewHealthMonitor
                  /\ st = GetHealthStatus(NewHealthMonitor, now')
                  /\ st.totalRequests = 0 /\ st.successfulRequests = 0
                  /\ st.failedRequests = 0 /\ st.consecutiveFailures = 0
                  /\ st.lastSuccessTime = 0 /\ st.lastFailureTime = 0
                  /\ st.recentFailures = <<>>
                  /\ st.successRate = <<1, 1>> /\ st.isHealthy /\ st.healthIssues = <<>>
       /\ hm' # hm => calls'.op \in {"RecordSuccess", "RecordFailure", "Reset"}]_vars

\* C18 witness: a Reset right after five failures that followed a success,
\* more than an hour after that success.
C18_Witness ==
    /\ calls.op = "Reset"
    /\ calls.arrivals = 5 /\ calls.n = 6
    /\ now = MaxClock
    /\ hm = NewHealthMonitor

(***************************************************************************)
(* ScoringEngine.ScoreCompany                                               *)
(***************************************************************************)
\* Largest number of requirements and largest number of exclusions of a model.
MaxConds == 1

\* Largest number of scoring rules of a model.
MaxRules == 2

\* Values of the snapshot and of the conditions, tagged with their Go type.
StrVal(s) == [type |-> "string", v |-> s]
IntVal(n) == [type |-> "int", v |-> n]
BoolVal(b) == [type |-> "bool", v |-> b]

\* fmt.Sprintf("%v", value) for the values of the model.
Sprintf(value) ==
    CASE value.type = "string" -> value.v
      [] value.type = "int" -> <<"0", "1", "2", "3", "4", "5", "6", "7", "8", "9">>[value.v + 1]
      [] value.type = "bool" -> IF value.v THEN "true" ELSE "false"

\* compareNumbers, engine.go:627-648, with toFloat64 (lines 650-666): values
\* that are not numbers compare false.
compareNumbers(actual, expected, operator) ==
    /\ actual.type = "int"
    /\ expected.type = "int"
    /\ CASE operator = ">" -> actual.v > expected.v
         [] operator = "<" -> actual.v < expected.v
         [] operator = ">=" -> actual.v >= expected.v
         [] operator = "<=" -> actual.v <= expected.v
         [] OTHER -> FALSE

\* evaluateCondition, engine.go:318-393: whether the condition holds. Of the
\* computed fields only no_verified_profile is modelled, of the operators
\* the ones below; the others do not occur in the models of this
\* specification.
evaluateCondition(data, field, operator, expectedValue) ==
    IF field = "no_verified_profile"
    THEN IF "profile_verified" \in DOMAIN data /\ data["profile_verified"].type = "bool"
         THEN ~data["profile_verified"].v
         ELSE TRUE
    ELSE IF field \notin DOMAIN data THEN FALSE
    ELSE LET actualValue == data[field]
         IN CASE operator = "equals" -> Sprintf(actualValue) = Sprintf(expectedValue)
              [] operator = "not_equals" -> Sprintf(actualValue) # Sprintf(expectedValue)
              [] operator = "greater_than" -> compareNumbers(actualValue, expectedValue, ">")
              [] operator = "less_than" -> compareNumbers(actualValue, expectedValue, "<")
              [] operator = "is_true" ->
                    IF actualValue.type = "bool" THEN actualValue.v
                    ELSE Sprintf(actualValue) = "true"
              [] operator = "is_false" ->
                    IF actualValue.type = "bool" THEN ~actualValue.v
                    ELSE Sprintf(actualValue) = "false"
              [] OTHER -> FALSE

\* Whether a requirement, an exclusion or the condition of a rule holds.
Holds(data, c) == evaluateCondition(data, c.field, c.operator, c.value)

\* ScoreCompany, lines 83-101: the result after the requirements reqs.
RECURSIVE CheckRequirements(_, _, _)
CheckRequirements(data, reqs, result) ==
    IF reqs = <<>> THEN result
    ELSE LET req == Head(reqs)
             met == Holds(data, req)
             detail == [points |-> 0, triggered |-> met]
         IN CheckRequirements(data, Tail(reqs),
                [result EXCEPT !.requirementsMet = IF met THEN @ ELSE FALSE,
                               !.breakdown = MapPut(@, <<req.field, "_requirement">>, detail)])

\* ScoreCompany, lines 104-122: the result after the exclusions excls.
RECURSIVE CheckExclusions(_, _, _)
CheckExclusions(data, excls, result) ==
    IF excls = <<>> THEN result
    ELSE LET exclusion == Head(excls)
             met == Holds(data, exclusion)
             detail == [points |-> 0, triggered |-> met]
         IN CheckExclusions(data, Tail(excls),
                [result EXCEPT !.requirementsMet = IF met THEN FALSE ELSE @,
                               !.breakdown = MapPut(@, <<exclusion.field, "_exclusion">>, detail)])

\* Mutation of AddWeight: only positive weights are added.
AddWeightIfPositive(score, weight) == IF weight > 0 THEN score + weight ELSE score

\* ScoreCompany, line 139: `result.Score += rule.Weight`.
AddWeight(score, weight) == score + weight

\* ScoreCompany, lines 127-143: the result after the scoring rules.
RECURSIVE ApplyRules(_, _, _)
ApplyRules(data, rules, result) ==
    IF rules = <<>> THEN result
    ELSE LET rule == Head(rules)
             triggered == Holds(data, rule)
             detail == [points |-> IF triggered THEN rule.weight ELSE 0,
                        triggered |-> triggered]
         IN ApplyRules(data, Tail(rules),
                [result EXCEPT !.score = IF triggered THEN AddWeight(@, rule.weight) ELSE @,
                               !.breakdown = MapPut(@, <<rule.field, "">>, detail)])

\* Mutation of RulesApply: the rules are applied whatever the requirements.
RulesApplyAlways(requirementsMet) == TRUE

\* ScoreCompany, line 125: `if result.RequirementsMet`.
RulesApply(requirementsMet) == requirementsMet

\* Mutation of Qualifies: a score equal to the minimum does not qualify.
QualifiesAbove(score, minScore) == score > minScore

\* ScoreCompany, line 146: `result.Score >= model.MinScore`.
Qualifies(score, minScore) == score >= minScore

\* ScoreCompany, engine.go:72-150.
ScoreCompany(data, model) ==
    LET initial == [returned |-> TRUE, score |-> 0, qualified |-> FALSE,
                    requirementsMet |-> TRUE, breakdown |-> <<>>]
        checked == CheckExclusions(data, model.exclusions,
                                   CheckRequirements(data, model.requirements, initial))
    IN IF RulesApply(checked.requirementsMet)
       THEN LET scored == ApplyRules(data, model.rules, checked)
            IN [scored EXCEPT !.qualified = Qualifies(scored.score, model.minScore)]
       ELSE checked

\* The call of ScoreCompany on the snapshot and the model.
CallScoreCompany ==
    /\ ~scoreResult.returned
    /\ scoreResult' = ScoreCompany(companyData, icpModel)
    /\ UNCHANGED <<companyData, icpModel>>

\* The conditions of the models: on a plain field of text, on a plain field
\* of number and on a computed field.
TierIsExpert == [field |-> "market_tier", operator |-> "equals", value |-> StrVal("Expert Market")]
HasVolume == [field |-> "trading_volume", operator |-> "greater_than", value |-> IntVal(0)]
NotVerified == [field |-> "no_verified_profile", operator |-> "", value |-> StrVal("")]

\* The sequences of at most n elements of S.
SeqUpTo(S, n) == UNION {[1..k -> S] : k \in 0..n}

\* The models: any requirements, exclusions and weighted rules over the
\* conditions, and a minimum score that is negative, zero or positive.
Models ==
    [requirements : SeqUpTo({TierIsExpert, HasVolume}, MaxConds),
     exclusions : SeqUpTo({HasVolume, NotVerified}, MaxConds),
     rules : SeqUpTo({[field |-> c.field, operator |-> c.operator, value |-> c.value,
                       weight |-> w] : c \in {HasVolume, NotVerified}, w \in {-1, 2}},
                     MaxRules),
     minScore : {-1, 0, 2}]

\* The snapshots: the tier, the trading volume (absent, 0 or 5) and whether
\* the profile is verified.
Snapshots ==
    {("market_tier" :> StrVal(t)) @@ ("profile_verified" :> BoolVal(b)) @@ vol :
        t \in {"Expert Market", "OTC Pink"}, b \in BOOLEAN,
        vol \in {<<>>, "trading_volume" :> IntVal(0), "trading_volume" :> IntVal(5)}}

EngineInit ==
    /\ PipelineIdle
    /\ ScrapeIdle
    /\ PagesIdle
    /\ FetchIdle /\ RateIdle /\ requests = <<>>
    /\ MonitorIdle
    /\ CycleIdle
    /\ ThreadsIdle
    /\ companyData \in Snapshots
    /\ icpModel \in Models
    /\ scoreResult = NoResult

EngineNext == CallScoreCompany /\ UNCHANGED notEngine

SpecEngine == EngineInit /\ [][EngineNext]_vars

(***************************************************************************)
(* Properties of ScoreCompany                                               *)
(***************************************************************************)
\* Whether every requirement of the model holds for the snapshot and no
\* exclusion does.
AllRequirementsHold ==
    /\ \A i \in 1..Len(icpModel.requirements) : Holds(companyData, icpModel.requirements[i])
    /\ \A i \in 1..Len(icpModel.exclusions) : ~Holds(companyData, icpModel.exclusions[i])

\* C19: the result of ScoreCompany has qualified = (requirementsMet and
\* score >= minScore), for every snapshot and every model, also when the
\* minimum score is zero or negative.
C19_QualifiedIff ==
    scoreResult.returned
        => (scoreResult.qualified <=>
                (scoreResult.requirementsMet /\ scoreResult.score >= icpModel.minScore))

\* C19 witness: a requirement failed while the minimum score is negative, so
\* the score 0 reaches the minimum and still the result is not qualified.
C19_Witness ==
    /\ scoreResult.returned
    /\ icpModel.minScore < 0
    /\ ~scoreResult.requirementsMet /\ ~scoreResult.qualified

\* C20: when a requirement does not hold or an exclusion holds, the result
\* has requirementsMet = false, score 0 and qualified = false whatever the
\* rules, their weights and the minimum score, and no rule has an entry in
\* the breakdown.
C20_UnmetRequirement ==
    (scoreResult.returned /\ ~AllRequirementsHold)
        => /\ ~scoreResult.requirementsMet
           /\ scoreResult.score = 0
           /\ ~scoreResult.qualified
           /\ \A key \in DOMAIN scoreResult.breakdown : key[2] # ""

\* C20 witness: an exclusion holds while the requirements hold, a rule with
\* weight 2 would trigger and the minimum score is negative.
C20_Witness ==
    /\ scoreResult.returned
    /\ Len(icpModel.requirements) = 1 /\ Holds(companyData, icpModel.requirements[1])
    /\ Len(icpModel.exclusions) = 1 /\ Holds(companyData, icpModel.exclusions[1])
    /\ Len(icpModel.rules) = 2
    /\ Holds(companyData, icpModel.rules[1]) /\ icpModel.rules[1].weight = 2
    /\ icpModel.minScore < 0
    /\ scoreResult.score = 0 /\ ~scoreResult.qualified

(***************************************************************************)
(* ScoreCompany on models of up to three weighted rules                     *)
(***************************************************************************)
\* Largest number of scoring rules of a weighted model.
MaxWeighted == 3

\* The weighted models: rules of weight +1 and -1 on the two conditions, a
\* minimum score of 1 or 3, at most one requirement and one exclusion.
WeightedModels ==
    [requirements : SeqUpTo({TierIsExpert}, 1),
     exclusions : SeqUpTo({NotVerified}, 1),
     rules : SeqUpTo({[field |-> c.field, operator |-> c.operator, value |-> c.value,
                       weight |-> w] : c \in {HasVolume, TierIsExpert}, w \in {-1, 1}},
                     MaxWeighted),
     minScore : {1, 3}]

WeightsInit ==
    /\ PipelineIdle
    /\ ScrapeIdle
    /\ PagesIdle
    /\ FetchIdle /\ RateIdle /\ requests = <<>>
    /\ MonitorIdle
    /\ CycleIdle
    /\ ThreadsIdle
    /\ companyData \in Snapshots
    /\ icpModel \in WeightedModels
    /\ scoreResult = NoResult

SpecWeights == WeightsInit /\ [][EngineNext]_vars

\* The rules of the model whose condition the snapshot triggers.
TriggeredRules == {i \in 1..Len(icpModel.rules) : Holds(companyData, icpModel.rules[i])}

\* The sum of the weights of the rules with index in S.
RECURSIVE SumWeights(_)
SumWeights(S) ==
    IF S = {} THEN 0
    ELSE LET i == CHOOSE j \in S : TRUE
         IN icpModel.rules[i].weight + SumWeights(S \ {i})

\* C21: when every requirement holds and no exclusion holds, the score of
\* the result is the sum of the weights, negative ones included, of exactly
\* the rules whose condition the snapshot triggers, and the result is
\* qualified when that sum reaches the minimum score.
C21_ScoreIsSum ==
    (scoreResult.returned /\ AllRequirementsHold)
        => /\ scoreResult.score = SumWeights(TriggeredRules)
           /\ scoreResult.qualified <=> (SumWeights(TriggeredRules) >= icpModel.minScore)

\* C21 witness: three triggered rules of weights +1, +1 and -1 give score 1.
C21_Witness ==
    /\ scoreResult.returned /\ AllRequirementsHold
    /\ Len(icpModel.rules) = 3
    /\ TriggeredRules = {1, 2, 3}
    /\ icpModel.rules[1].weight = 1 /\ icpModel.rules[2].weight = 1
    /\ icpModel.rules[3].weight = -1
    /\ scoreResult.score = 1

(***************************************************************************)
(* ScoringPipeline.RunOnce and executeScoringCycle                          *)
(***************************************************************************)
\* Largest number of companies the query matches.
MaxCompanies == 3

\* Largest BatchSize of the configuration.
MaxBatchSize == 2

\* Largest MaxConcurrent of the configuration.
MaxConcurrent == 2

\* getCompaniesForScoring, lines 227 and 247: `LIMIT config.BatchSize * 10`.
limitFactor == 10

\* The pipeline after Start has returned and the initial cycle of its loop
\* has ended: Running, the loop waiting in its select.
PipelineRunning ==
    /\ isRunning = TRUE
    /\ stopChanClosed = FALSE
    /\ mu = 0
    /\ wg = 1
    /\ nLoops = 1
    /\ loopPc = [l \in Loops |-> IF l = 1 THEN "select" ELSE "none"]
    /\ callPc = [c \in Callers |-> "idle"]
    /\ callOp = [c \in Callers |-> IF c = 1 THEN "start" ELSE "none"]
    /\ callResult = [c \in Callers |-> IF c = 1 THEN "ok" ELSE "none"]

\* The configurations: parsePipelineConfig (cmd/scoring-pipeline/main.go:93-126)
\* takes any integer of the environment, zero included, and neither Start
\* nor RunOnce checks it.
Configs == [batchSize : 0..MaxBatchSize, maxConcurrent : 0..MaxConcurrent]

\* What scoringService.ScoreCompany (part_015:239-267) meets for a company:
\* nothing fails, the active models or the company data cannot be loaded,
\* or the score of a model cannot be stored.
ServiceOutcomes == {"ok", "load", "store"}

\* scoringServiceImpl.ScoreCompany, part_015:239-267: whether it returns an
\* error. A failure of StoreScoreResult is logged and the loop goes on.
ScoreCompanyFails(outcome) == outcome = "load"

CycleInit ==
    /\ PipelineIdle \/ PipelineRunning
    /\ ScrapeIdle
    /\ PagesIdle
    /\ FetchIdle /\ RateIdle /\ requests = <<>>
    /\ MonitorIdle
    /\ EngineIdle
    /\ config \in Configs
    /\ eligible \in 0..MaxCompanies
    /\ cyclePc = "idle"
    /\ cycleErr = "none"
    /\ companies = 0
    /\ launchI = 0
    /\ chunkTasks = <<>>
    /\ cycleSemaphore = 0
    /\ cycleWg = 0
    /\ statsMu = 0
    /\ stats = ZeroStats
    /\ scoreLog = [c \in 1..MaxCompanies |-> <<>>]
    /\ cycles = 0
    /\ ThreadsIdle

\* RunOnce, lines 108-111: the caller enters executeScoringCycle.
CallRunOnce ==
    /\ cyclePc = "idle"
    /\ cyclePc' = "query"
    /\ cycles' = cycles + 1
    /\ UNCHANGED <<config, eligible, cycleErr, companies, launchI, chunkTasks,
                   cycleSemaphore, cycleWg, statsMu, stats, scoreLog>>

\* getCompaniesForScoring, lines 213-266: the number of rows of the query
\* with its LIMIT.
Limit(rows, size) == IF rows < size * limitFactor THEN rows ELSE size * limitFactor

\* executeScoringCycle, lines 155-158: the query fails and the cycle returns
\* the error.
QueryFails ==
    /\ cyclePc = "query"
    /\ cyclePc' = "returned"
    /\ cycleErr' = "query"
    /\ UNCHANGED <<config, eligible, companies, launchI, chunkTasks,
                   cycleSemaphore, cycleWg, statsMu, stats, scoreLog, cycles>>

\* executeScoringCycle, lines 155-172: the query answers; with no company
\* the cycle returns at once, otherwise the semaphore, the WaitGroup and the
\* mutex are made and the loop begins.
QueryCompanies ==
    /\ cyclePc = "query"
    /\ companies' = Limit(eligible, config.batchSize)
    /\ IF companies' = 0
       THEN /\ cyclePc' = "returned"
            /\ stats' = [stats EXCEPT !.processed = 0]
       ELSE /\ cyclePc' = "launch"
            /\ stats' = [stats EXCEPT !.found = companies']
    /\ UNCHANGED <<config, eligible, cycleErr, launchI, chunkTasks,
                   cycleSemaphore, cycleWg, statsMu, scoreLog, cycles>>

\* executeScoringCycle, line 175: `i < len(companies)`.
LaunchMore(i, n) == i < n

\* executeScoringCycle, lines 176-179: the end of the chunk that begins at i.
BatchEnd(i, size, n) == IF i + size > n THEN n ELSE i + size

\* executeScoringCycle, lines 175-203: one pass of the loop. The goroutine
\* of the chunk companies[i:end] is launched and i advances by BatchSize.
LaunchChunk ==
    /\ cyclePc = "launch"
    /\ LaunchMore(launchI, companies)
    /\ chunkTasks' = Append(chunkTasks,
            [lo |-> launchI, hi |-> BatchEnd(launchI, config.batchSize, companies),
             pc |-> "acquire", pos |-> launchI, batchStats |-> ZeroBatchStats,
             read |-> <<>>])
    /\ cycleWg' = cycleWg + 1
    /\ launchI' = launchI + config.batchSize
    /\ UNCHANGED <<config, eligible, cyclePc, cycleErr, companies,
                   cycleSemaphore, statsMu, stats, scoreLog, cycles>>

\* executeScoringCycle, lines 175 and 205: the loop ends and the caller
\* blocks in wg.Wait().
LaunchDone ==
    /\ cyclePc = "launch"
    /\ ~LaunchMore(launchI, companies)
    /\ cyclePc' = "wait"
    /\ UNCHANGED <<config, eligible, cycleErr, companies, launchI, chunkTasks,
                   cycleSemaphore, cycleWg, statsMu, stats, scoreLog, cycles>>

\* Mutation of CycleJoined: the cycle does not wait for its goroutines.
CycleJoinedAlways(n) == TRUE

\* wg.Wait(), line 205, returns when the counter is zero.
CycleJoined(n) == n = 0

\* executeScoringCycle, lines 205-209: wg.Wait() has returned, the times are
\* taken and the stats are returned.
WaitReturn ==
    /\ cyclePc = "wait"
    /\ CycleJoined(cycleWg)
    /\ cyclePc' = "returned"
    /\ UNCHANGED <<config, eligible, cycleErr, companies, launchI, chunkTasks,
                   cycleSemaphore, cycleWg, statsMu, stats, scoreLog, cycles>>

\* The goroutines of the chunks.
ChunkTasks == 1..Len(chunkTasks)

\* Mutation of SemaphoreAccepts: the send never blocks.
SemaphoreAcceptsAlways(held, capacity) == TRUE

\* `semaphore <- struct{}{}`, line 188: the send on the buffered channel
\* goes through while the buffer has room. With capacity 0 the channel is
\* unbuffered and nothing ever receives from it before a send.
SemaphoreAccepts(held, capacity) == held < capacity

\* Goroutine of a chunk, line 188: it acquires the semaphore.
ChunkAcquire(k) ==
    /\ chunkTasks[k].pc = "acquire"
    /\ SemaphoreAccepts(cycleSemaphore, config.maxConcurrent)
    /\ cycleSemaphore' = cycleSemaphore + 1
    /\ chunkTasks' = [chunkTasks EXCEPT ![k].pc = "score"]
    /\ UNCHANGED <<config, eligible, cyclePc, cycleErr, companies, launchI,
                   cycleWg, statsMu, stats, scoreLog, cycles>>

\* processBatch, lines 273-284: the counters of the chunk after one company.
Counted(b, outcome) ==
    IF ScoreCompanyFails(outcome)
    THEN [b EXCEPT !.processed = @ + 1, !.failed = @ + 1]
    ELSE [b EXCEPT !.processed = @ + 1, !.succeeded = @ + 1, !.modelsApplied = @ + 2]

\* processBatch, lines 272-285: one pass of its loop, the call of
\* scoringService.ScoreCompany on the next company of the chunk; after the
\* last company processBatch returns.
ChunkScore(k, outcome) ==
    LET t == chunkTasks[k]
    IN /\ t.pc = "score"
       /\ scoreLog' = [scoreLog EXCEPT ![t.pos + 1] = Append(@, outcome)]
       /\ chunkTasks' = [chunkTasks EXCEPT ![k].batchStats = Counted(@, outcome),
                                           ![k].pos = @ + 1,
                                           ![k].pc = IF t.pos + 1 < t.hi THEN "score" ELSE "lock"]
       /\ UNCHANGED <<config, eligible, cyclePc, cycleErr, companies, launchI,
                      cycleSemaphore, cycleWg, statsMu, stats, cycles>>

\* Mutation of MutexFree: the lock is granted while another goroutine holds it.
MutexFreeAlways(holder) == TRUE

\* mu.Lock(), line 195, returns when no goroutine holds the mutex.
MutexFree(holder) == holder = 0

\* Goroutine of a chunk, lines 195-199: it takes the mutex and reads the
\* counters of the stats it is about to add to.
ChunkLock(k) ==
    /\ chunkTasks[k].pc = "lock"
    /\ MutexFree(statsMu)
    /\ statsMu' = k
    /\ chunkTasks' = [chunkTasks EXCEPT ![k].pc = "add", ![k].read = stats]
    /\ UNCHANGED <<config, eligible, cyclePc, cycleErr, companies, launchI,
                   cycleSemaphore, cycleWg, stats, scoreLog, cycles>>

\* Goroutine of a chunk, lines 196-200: it writes the sums and unlocks.
ChunkAdd(k) ==
    LET t == chunkTasks[k]
    IN /\ t.pc = "add"
       /\ stats' = [stats EXCEPT !.processed = t.read.processed + t.batchStats.processed,
                                 !.succeeded = t.read.succeeded + t.batchStats.succeeded,
                                 !.failed = t.read.failed + t.batchStats.failed,
                                 !.modelsApplied = t.read.modelsApplied + t.batchStats.modelsApplied]
       /\ statsMu' = 0
       /\ chunkTasks' = [chunkTasks EXCEPT ![k].pc = "exit", ![k].read = <<>>]
       /\ UNCHANGED <<config, eligible, cyclePc, cycleErr, companies, launchI,
                      cycleSemaphore, cycleWg, scoreLog, cycles>>

\* Goroutine of a chunk, lines 185 and 189: the deferred receive from the
\* semaphore and the deferred wg.Done() run as it returns.
ChunkExit(k) ==
    /\ chunkTasks[k].pc = "exit"
    /\ cycleSemaphore' = cycleSemaphore - 1
    /\ cycleWg' = cycleWg - 1
    /\ chunkTasks' = [chunkTasks EXCEPT ![k].pc = "done"]
    /\ UNCHANGED <<config, eligible, cyclePc, cycleErr, companies, launchI,
                   statsMu, stats, scoreLog, cycles>>

CycleNext ==
    \/ CallRunOnce /\ UNCHANGED notCycle
    \/ QueryFails /\ UNCHANGED notCycle
    \/ QueryCompanies /\ UNCHANGED notCycle
    \/ LaunchChunk /\ UNCHANGED notCycle
    \/ LaunchDone /\ UNCHANGED notCycle
    \/ WaitReturn /\ UNCHANGED notCycle
    \/ \E k \in ChunkTasks : ChunkAcquire(k) /\ UNCHANGED notCycle
    \/ \E k \in ChunkTasks, o \in ServiceOutcomes : ChunkScore(k, o) /\ UNCHANGED notCycle
    \/ \E k \in ChunkTasks : ChunkLock(k) /\ UNCHANGED notCycle
    \/ \E k \in ChunkTasks : ChunkAdd(k) /\ UNCHANGED notCycle
    \/ \E k \in ChunkTasks : ChunkExit(k) /\ UNCHANGED notCycle

SpecCycle == CycleInit /\ [][CycleNext]_vars

\* The scheduler runs every goroutine that can take a step, and the
\* database and the scoring service answer every call.
SpecCycleFair == SpecCycle /\ WF_vars(CycleNext)

(***************************************************************************)
(* Properties of RunOnce and of the scoring cycle                           *)
(***************************************************************************)
\* The goroutines of the chunks that have not returned.
LiveChunks == {k \in ChunkTasks : chunkTasks[k].pc # "done"}

\* C22: RunOnce runs exactly one cycle, synchronously: when it has returned
\* one executeScoringCycle call has been made, the loop that launches the
\* chunks is over and every goroutine of the cycle has returned; this holds
\* with the pipeline Running and with the pipeline Stopped, and the run
\* state, the stop signal and the background loop are what they were.
C22_RunOnceSynchronous ==
    /\ [](cyclePc = "returned"
            => /\ cycles = 1
               /\ LiveChunks = {}
               /\ cycleErr = "none" => ~LaunchMore(launchI, companies))
    /\ [](PipelineIdle \/ PipelineRunning)
    /\ [][UNCHANGED <<isRunning, stopChanClosed, mu, wg, nLoops, loopPc>>]_vars

\* C22 witness: RunOnce has returned on a Running pipeline after a fan-out
\* of two chunks.
C22_Witness ==
    /\ cyclePc = "returned"
    /\ PipelineRunning
    /\ Len(chunkTasks) = 2
    /\ stats.processed = 2

\* The goroutines of the chunks that hold a token of the semaphore: they are
\* inside processBatch or past it and have not returned.
ProcessingChunks == {k \in ChunkTasks : chunkTasks[k].pc \in {"score", "lock", "add", "exit"}}

\* The goroutines of the chunks that are inside processBatch, each scoring
\* one company at a time.
ScoringChunks == {k \in ChunkTasks : chunkTasks[k].pc = "score"}

\* The chunks that hold company c (the companies are numbered from 0 here,
\* as the indices of the slice).
ChunksOf(c) == {k \in ChunkTasks : chunkTasks[k].lo <= c /\ c < chunkTasks[k].hi}

\* C23: once the launch loop is over the chunks are consecutive slices of
\* the candidates, each of at least one and at most BatchSize companies,
\* and every candidate is in exactly one chunk; at every moment at most
\* MaxConcurrent chunks hold the semaphore, so at most MaxConcurrent
\* companies are being scored.
C23_ChunksAndBound ==
    /\ (cyclePc \in {"wait", "returned"} /\ companies > 0)
          => /\ chunkTasks[1].lo = 0
             /\ chunkTasks[Len(chunkTasks)].hi = companies
             /\ \A k \in ChunkTasks :
                   /\ chunkTasks[k].hi - chunkTasks[k].lo \in 1..config.batchSize
                   /\ k > 1 => chunkTasks[k].lo = chunkTasks[k - 1].hi
             /\ \A c \in 0..(companies - 1) : Cardinality(ChunksOf(c)) = 1
    /\ Cardinality(ProcessingChunks) <= config.maxConcurrent
    /\ Cardinality(ScoringChunks) <= config.maxConcurrent

\* C23 witness: three chunks of one company with MaxConcurrent 2; two are
\* inside processBatch and the third waits for the semaphore.
C23_Witness ==
    /\ config.maxConcurrent = 2
    /\ cyclePc = "wait"
    /\ Len(chunkTasks) = 3
    /\ Cardinality(ScoringChunks) = 2
    /\ \E k \in ChunkTasks : chunkTasks[k].pc = "acquire"

\* The selected companies whose one scoring met a failure, and the ones
\* whose scoring met none.
FailedCompanies == {c \in 1..companies : \E i \in 1..Len(scoreLog[c]) : scoreLog[c][i] # "ok"}
ScoredCompanies == {c \in 1..companies : scoreLog[c] = <<"ok">>}

\* C24: when the cycle has returned, every selected company has been scored
\* whatever failed for the others, and the companies whose scoring failed
\* (data not loaded, score not stored) are the ones counted in failed, the
\* others the ones counted in succeeded.
C24_FailuresCounted ==
    (cyclePc = "returned" /\ cycleErr = "none")
        => /\ \A c \in 1..companies : Len(scoreLog[c]) = 1
           /\ stats.failed = Cardinality(FailedCompanies)
           /\ stats.succeeded = Cardinality(ScoredCompanies)

(***************************************************************************)
(* HealthMonitor called by concurrent goroutines                            *)
(***************************************************************************)
\* Number of goroutines that call the monitor.
NumMonitorThreads == 2

\* Largest number of concurrent calls begun in one behaviour.
MaxMonitorCalls == 3

MonitorThreads == 1..NumMonitorThreads

\* The monitor after n RecordFailure calls made one after another.
RECURSIVE AfterFailures(_)
AfterFailures(n) ==
    IF n = 0 THEN NewHealthMonitor
    ELSE RecordFailure(AfterFailures(n - 1), "A", {"timeout"}, "u", 1)

\* The monitor is fresh, or its ring of failures has just been filled by
\* calls that have all returned.
ThreadsInit ==
    /\ PipelineIdle
    /\ ScrapeIdle
    /\ lastCall = NoCall
    /\ FetchIdle /\ RateIdle /\ requests = <<>>
    /\ EngineIdle
    /\ CycleIdle
    /\ now = 1
    /\ \/ /\ hm = NewHealthMonitor
          /\ calls = NoCalls
       \/ /\ hm = AfterFailures(maxRecentFailures)
          /\ calls = [op |-> "RecordFailure", n |-> maxRecentFailures,
                      arrivals |-> maxRecentFailures, succ |-> 0,
                      fail |-> maxRecentFailures, run |-> maxRecentFailures]
    /\ hmMu = [writer |-> 0, readers |-> {}]
    /\ hmPc = [t \in MonitorThreads |-> "idle"]
    /\ hmOp = [t \in MonitorThreads |-> "none"]
    /\ hmLocal = [t \in MonitorThreads |-> <<>>]
    /\ hmSeen = [t \in MonitorThreads |-> <<>>]
    /\ hmStarted = 0

\* A goroutine calls RecordSuccess, RecordFailure or Reset and blocks in
\* h.mu.Lock(), or calls GetHealthStatus and blocks in h.mu.RLock().
ThreadCall(t, op) ==
    /\ hmPc[t] = "idle"
    /\ hmStarted < MaxMonitorCalls
    /\ hmStarted' = hmStarted + 1
    /\ hmOp' = [hmOp EXCEPT ![t] = op]
    /\ hmPc' = [hmPc EXCEPT ![t] = IF op = "GetHealthStatus" THEN "rlock" ELSE "lock"]
    /\ UNCHANGED <<hm, calls, hmMu, hmLocal, hmSeen>>

\* Mutation of LockFree: the write lock is granted whoever holds the mutex.
LockFreeAlways(m) == TRUE

\* h.mu.Lock() returns when no goroutine holds the mutex, for writing or
\* for reading.
LockFree(m) == m.writer = 0 /\ m.readers = {}

\* h.mu.RLock() returns when no goroutine holds the write lock.
RLockFree(m) == m.writer = 0

\* The state a writing method leaves, from the state h it finds.
Written(op, h, t) ==
    CASE op = "RecordSuccess" -> RecordSuccess(h, "A", now)
      [] op = "RecordFailure" -> RecordFailure(h, "A", {"timeout"}, "u", now)
      [] op = "Reset" -> Reset(h)

\* RecordSuccess line 59, RecordFailure line 70, Reset line 226: the lock is
\* taken; the fields the method reads are read under it.
ThreadLock(t) ==
    /\ hmPc[t] = "lock"
    /\ LockFree(hmMu)
    /\ hmMu' = [hmMu EXCEPT !.writer = t]
    /\ hmLocal' = [hmLocal EXCEPT ![t] = Written(hmOp[t], hm, t)]
    /\ hmPc' = [hmPc EXCEPT ![t] = "total"]
    /\ UNCHANGED <<hm, calls, hmOp, hmSeen, hmStarted>>

\* Lines 62, 73, 229: totalRequests is written.
ThreadWriteTotal(t) ==
    /\ hmPc[t] = "total"
    /\ hm' = [hm EXCEPT !.total = hmLocal[t].total]
    /\ hmPc' = [hmPc EXCEPT ![t] = "counts"]
    /\ UNCHANGED <<calls, hmMu, hmOp, hmLocal, hmSeen, hmStarted>>

\* Lines 63, 74, 230-231: successfulRequests and failedRequests are written.
ThreadWriteCounts(t) ==
    /\ hmPc[t] = "counts"
    /\ hm' = [hm EXCEPT !.successful = hmLocal[t].successful, !.failed = hmLocal[t].failed]
    /\ hmPc' = [hmPc EXCEPT ![t] = "rest"]
    /\ UNCHANGED <<calls, hmMu, hmOp, hmLocal, hmSeen, hmStarted>>

\* The counts of the calls that have returned, after one more.
Completed(c, op) ==
    CASE op = "RecordSuccess" ->
            [c EXCEPT !.op = op, !.n = @ + 1, !.succ = @ + 1, !.run = 0]
      [] op = "RecordFailure" ->
            [c EXCEPT !.op = op, !.n = @ + 1, !.arrivals = @ + 1, !.fail = @ + 1, !.run = @ + 1]
      [] op = "Reset" -> [c EXCEPT !.op = op, !.succ = 0, !.fail = 0, !.run = 0]

\* Lines 64-65, 75-89, 232-235 and the deferred Unlock: the other fields are
\* written, the lock is released and the method returns.
ThreadWriteRest(t) ==
    /\ hmPc[t] = "rest"
    /\ hm' = [hm EXCEPT !.consecutive = hmLocal[t].consecutive,
                        !.lastFailureTime = hmLocal[t].lastFailureTime,
                        !.lastSuccessTime = hmLocal[t].lastSuccessTime,
                        !.recent = hmLocal[t].recent]
    /\ hmMu' = [hmMu EXCEPT !.writer = 0]
    /\ calls' = Completed(calls, hmOp[t])
    /\ hmLocal' = [hmLocal EXCEPT ![t] = <<>>]
    /\ hmPc' = [hmPc EXCEPT ![t] = "idle"]
    /\ UNCHANGED <<hmOp, hmSeen, hmStarted>>

\* GetHealthStatus, lines 94-101: the read lock is taken and totalRequests
\* is read.
ThreadRLock(t) ==
    /\ hmPc[t] = "rlock"
    /\ RLockFree(hmMu)
    /\ hmMu' = [hmMu EXCEPT !.readers = @ \cup {t}]
    /\ hmLocal' = [hmLocal EXCEPT ![t] = hm.total]
    /\ hmPc' = [hmPc EXCEPT ![t] = "status"]
    /\ UNCHANGED <<hm, calls, hmOp, hmSeen, hmStarted>>

\* GetHealthStatus, lines 102-158: the other fields are read, the status is
\* built, the read lock is released and the status is returned.
ThreadStatus(t) ==
    /\ hmPc[t] = "status"
    /\ hmSeen' = [hmSeen EXCEPT ![t] =
            [GetHealthStatus(hm, now) EXCEPT !.totalRequests = hmLocal[t]]]
    /\ hmMu' = [hmMu EXCEPT !.readers = @ \ {t}]
    /\ hmLocal' = [hmLocal EXCEPT ![t] = <<>>]
    /\ hmPc' = [hmPc EXCEPT ![t] = "idle"]
    /\ UNCHANGED <<hm, calls, hmOp, hmStarted>>

MonitorMethods == {"RecordSuccess", "RecordFailure", "Reset", "GetHealthStatus"}

ThreadsNext ==
    \/ \E t \in MonitorThreads, op \in MonitorMethods : ThreadCall(t, op) /\ UNCHANGED notThreads
    \/ \E t \in MonitorThreads : ThreadLock(t) /\ UNCHANGED notThreads
    \/ \E t \in MonitorThreads : ThreadWriteTotal(t) /\ UNCHANGED notThreads
    \/ \E t \in MonitorThreads : ThreadWriteCounts(t) /\ UNCHANGED notThreads
    \/ \E t \in MonitorThreads : ThreadWriteRest(t) /\ UNCHANGED notThreads
    \/ \E t \in MonitorThreads : ThreadRLock(t) /\ UNCHANGED notThreads
    \/ \E t \in MonitorThreads : ThreadStatus(t) /\ UNCHANGED notThreads

SpecThreads == ThreadsInit /\ [][ThreadsNext]_vars

(***************************************************************************)
(* Properties of the HealthMonitor under concurrent calls                   *)
(***************************************************************************)
\* C25: whenever no call is in progress, with m RecordSuccess and k
\* RecordFailure calls returned since construction or the last Reset, the
\* monitor has total = m + k, successes = m, failures = k and min(k, 50)
\* records in its ring; and every status ever returned has total =
\* successes + failures.
C25_NoLostUpdate ==
    /\ (\A t \in MonitorThreads : hmPc[t] \in {"idle", "lock", "rlock"})
          => /\ hm.total = calls.succ + calls.fail
             /\ hm.successful = calls.succ
             /\ hm.failed = calls.fail
             /\ Len(hm.recent) = Min(calls.fail, maxRecentFailures)
    /\ \A t \in MonitorThreads :
          hmSeen[t] # <<>>
             => hmSeen[t].totalRequests
                    = hmSeen[t].successfulRequests + hmSeen[t].failedRequests

\* C25 witness: a RecordSuccess holds the lock between its writes, so that
\* the fields of the monitor do not add up, while a GetHealthStatus of
\* another goroutine waits for the read lock, on a monitor whose ring is
\* full.
C25_Witness ==
    \E t, u \in MonitorThreads :
        /\ hmPc[t] = "counts" /\ hmOp[t] = "RecordSuccess"
        /\ hm.total # hm.successful + hm.failed
        /\ hmPc[u] = "rlock"
        /\ Len(hm.recent) = maxRecentFailures

(***************************************************************************)
(* Properties of ScrapeTickersOptimized and of the close of the stream      *)
(***************************************************************************)
\* The results put on the stream so far, in the order they were sent.
OptSent == received \o queue

\* C26: ScrapeTickersOptimized sends one result per ticker in input order;
\* it fetches a chunk only when every result of the chunks before it has
\* been sent; and when the check between two chunks finds ctx cancelled it
\* returns ctx.Err() and fetches nothing more.
C26_ChunksInSequence ==
    /\ [](mode = "optimized" => \A i \in 1..Len(OptSent) : OptSent[i] = i)
    /\ [][(mode = "optimized" /\ mainPc = "chunk" /\ mainPc' = "chunk_send")
            => Len(OptSent) = chunkStart - 1]_vars
    /\ [][(mode = "optimized" /\ mainPc = "chunk_check" /\ ctxDone /\ mainPc' # mainPc)
            => (mainPc' = "returned" /\ mainErr' = "ctx")]_vars
    /\ [][(mode = "optimized" /\ mainPc = "returned") => mainPc' = "returned"]_vars

\* C26 witness: the cancellation was observed after the first chunk of ten
\* was sent whole; the call returned ctx.Err() and the tickers of the
\* second chunk were never fetched.
C26_Witness ==
    /\ mode = "optimized" /\ tickerCount > batchSize
    /\ mainPc = "returned" /\ mainErr = "ctx"
    /\ chunkStart = 1
    /\ Len(OptSent) = batchSize

\* C27: in ScrapeTickersBatch no goroutine ever sends on resultsChan after
\* it has been closed, whenever the cancellation comes.
C27_NoSendAfterClose ==
    [][\A t \in Tasks :
          ~(mode = "batch" /\ closeCount > 0 /\ taskPc[t] = "send" /\ taskPc'[t] = "panic")]_vars

(***************************************************************************)
(* The two maps of GetBatch                                                 *)
(***************************************************************************)
\* C28: when GetBatch has returned on a list of distinct URLs, every URL of
\* the list is a key of exactly one of the two maps, whatever the proxy
\* answered.
C28_EveryUrlInOneMap ==
    (fetchPc = "done" /\ \A i, j \in 1..Len(fetchUrls) : fetchUrls[i] = fetchUrls[j] => i = j)
        => \A i \in 1..Len(fetchUrls) :
              (fetchUrls[i] \in fetchDocs) # (fetchUrls[i] \in DOMAIN fetchErrors)

(***************************************************************************)
(* Termination and stats of the scoring cycle                               *)
(***************************************************************************)
\* C29: for every configuration, BatchSize 0 and MaxConcurrent 0 included,
\* a cycle that has begun eventually returns its stats.
C29_CycleCompletes == (cyclePc = "query") ~> (cyclePc = "returned")

\* C30: when a cycle has returned its stats, every selected company has been
\* scored exactly once and no other company has, found is the number of
\* selected companies, processed = found and processed = succeeded + failed.
C30_StatsAddUp ==
    (cyclePc = "returned" /\ cycleErr = "none")
        => /\ \A c \in 1..MaxCompanies : Len(scoreLog[c]) = (IF c <= companies THEN 1 ELSE 0)
           /\ stats.found = companies
           /\ stats.processed = stats.found
           /\ stats.processed = stats.succeeded + stats.failed

\* C30 witness: a cycle of three companies in two chunks has returned; one
\* chunk counted a failure and the other two successes.
C30_Witness ==
    /\ cyclePc = "returned"
    /\ companies = 3 /\ Len(chunkTasks) = 2
    /\ stats.processed = 3 /\ stats.failed = 1 /\ stats.succeeded = 2
    /\ chunkTasks[2].batchStats.failed = 1

====
